---- MODULE Spec2Model ----
(***************************************************************************)
(* Model of the Instagram carousel publisher (src/src/instagram-poster.js). *)
(*                                                                         *)
(* One run of postCarousel is a record `run`; every await of the code is a  *)
(* step.  A step that awaits a fetch draws the platform's JSON response     *)
(* from Responses and appends the issued call to run.log; a step that       *)
(* awaits sleep(ms) appends the sleep to run.log.  A thrown Error is the    *)
(* sequence of the pieces of its template-literal message.                  *)
(*                                                                         *)
(* `ref` is a second run of the same code, started on the same arguments    *)
(* with the null entries of imageUrls removed, that receives in every step  *)
(* the same response as `run`.  `last` is the response of the latest step   *)
(* of `run` and `platform` what the platform did for the calls of `run`:    *)
(* the objects it created and the containers it reported FINISHED.          *)
(* `inflight` holds the requests sent and not yet answered.  `prev` keeps   *)
(* what an earlier, returned call of postCarousel did (SpecTwice: the same  *)
(* call made twice).  `drv` is a process running one of the scripts that    *)
(* call the publisher (SpecBatch: index, post-carousels, test-token).       *)
(***************************************************************************)
EXTENDS Integers, Sequences, FiniteSets, TLC

VARIABLES run, ref, nextId, last, platform, inflight, prev, drv

vars == <<run, ref, nextId, last, platform, inflight, prev, drv>>

(***************************************************************************)
(* Bounds and input domains                                                *)
(***************************************************************************)
\* longest imageUrls array handed to postCarousel
MaxUrls == 3
\* a container that reports FINISHED does so in one of its first
\* MaxFinishPolls status checks (one that never does runs into the timeout)
MaxFinishPolls == 2

\* `null` entry of imageUrls (a failed upload)
NULL == "<null>"
\* a parameter or JSON field that is absent / undefined
Undefined == "<undefined>"

\* the public URL the upload of slide p returned
UrlOf(p) == "u" \o ToString(p)
Captions == {"caption"}
Acct == "acct"
\* error.message texts the platform may report
Messages == {"quota exceeded"}
\* status_code values of a container (Undefined: the field is missing)
StatusCodes == {"FINISHED", "ERROR", "PENDING", "IN_PROGRESS", "EXPIRED", Undefined}
\* status texts of a container (Undefined: the field is missing)
StatusTexts == {"media rejected", Undefined}

\* the arrays a caller hands to postCarousel: entry p is the URL of slide p,
\* or null when its upload failed
UrlArrays ==
    UNION {{[p \in 1..n |-> IF p \in failed THEN NULL ELSE UrlOf(p)] :
               failed \in SUBSET (1..n)} : n \in 0..MaxUrls}

\* the id the platform hands out for its n-th created object
IdOf(n) == "id" \o ToString(n)

\* What a fetch followed by res.json() yields: ok = FALSE when the fetch
\* rejects or the body does not parse; otherwise the parsed body, which is
\* either {error: {message}} or the object asked for (its id, and the
\* status_code and status of a container).
Responses(n) ==
    [ok : {TRUE}, error : {Undefined}, id : {IdOf(n)},
     status_code : StatusCodes, status : StatusTexts]
    \cup
    [ok : {TRUE}, error : Messages, id : {Undefined},
     status_code : {Undefined}, status : {Undefined}]
    \cup
    [ok : {FALSE}, error : {Undefined}, id : {Undefined},
     status_code : {Undefined}, status : {Undefined}]

NoResponse ==
    [ok |-> TRUE, error |-> Undefined, id |-> Undefined,
     status_code |-> Undefined, status |-> Undefined]

(***************************************************************************)
(* Effects recorded in run.log                                             *)
(***************************************************************************)
\* POST {GRAPH_API}/{igAccountId}/media
PostMedia(acct, image_url, is_carousel_item, caption, media_type, children) ==
    [op |-> "POST media", acct |-> acct, image_url |-> image_url,
     is_carousel_item |-> is_carousel_item, caption |-> caption,
     media_type |-> media_type, children |-> children]

\* POST {GRAPH_API}/{igAccountId}/media_publish
PostMediaPublish(acct, creation_id) ==
    [op |-> "POST media_publish", acct |-> acct, creation_id |-> creation_id]

\* GET {GRAPH_API}/{containerId}?fields=status_code,status
GetStatus(containerId) ==
    [op |-> "GET status", container |-> containerId]

\* setTimeout(resolve, ms)
Sleep(ms) == [op |-> "sleep", ms |-> ms]

(***************************************************************************)
(* Outcome of a run                                                        *)
(***************************************************************************)
Pending == [status |-> "pending", value |-> Undefined, error |-> <<>>]
Returned(v) == [status |-> "returned", value |-> v, error |-> <<>>]
Thrown(parts) == [status |-> "thrown", value |-> Undefined, error |-> parts]

\* a fetch that rejects, or a body res.json() cannot parse
FetchError == <<"FetchError">>

(***************************************************************************)
(* waitForContainer(containerId, maxAttempts = 30)                         *)
(***************************************************************************)
maxAttempts == 30
\* sleep(2000) between two status checks
PollDelayMs == 2000
\* sleep(1000) after every item creation
PaceDelayMs == 1000

Throw(r, parts) == [r EXCEPT !.pc = "done", !.outcome = Thrown(parts)]
Return(r, v) == [r EXCEPT !.pc = "done", !.outcome = Returned(v)]
Logged(r, effect) == [r EXCEPT !.log = Append(@, effect)]

\* TimeoutError reporting the attempts instead of the seconds
TimeoutError_Attempts(containerId) ==
    <<"Container ", containerId, " timed out after ", ToString(maxAttempts), " seconds">>

\* `Container ${containerId} timed out after ${maxAttempts * 2} seconds`
TimeoutError(containerId) ==
    <<"Container ", containerId, " timed out after ", ToString(maxAttempts * 2), " seconds">>

\* FailedError worded like the timeout
FailedError_AsTimeout(containerId, status) == TimeoutError(containerId)

\* `Container ${containerId} failed: ${status.status || 'Unknown error'}`
FailedError(containerId, status) ==
    <<"Container ", containerId, " failed: ",
      IF status = Undefined THEN "Unknown error" ELSE status>>

\* the call waitForContainer(containerId) made at pc `at`: the for loop's
\* first test i < maxAttempts with i = 0
EnterWait(r, at, containerId) ==
    IF 0 < maxAttempts
    THEN [r EXCEPT !.pc = at, !.wstep = "check", !.waitId = containerId, !.attempt = 0]
    ELSE Throw(r, TimeoutError(containerId))

\* AfterWait that leaves the for-of loop after its first container
AfterWait_FirstChildOnly(r) ==
    CASE r.pc = "single_wait" -> [r EXCEPT !.pc = "single_publish"]
      [] r.pc = "items_wait" -> [r EXCEPT !.pc = "carousel_create"]
      [] r.pc = "carousel_wait" -> [r EXCEPT !.pc = "carousel_publish"]
      [] OTHER -> r

\* what postCarousel does when waitForContainer returns true
AfterWait(r) ==
    CASE r.pc = "single_wait" -> [r EXCEPT !.pc = "single_publish"]
      [] r.pc = "items_wait" ->
            IF r.k < Len(r.containerIds)
            THEN EnterWait([r EXCEPT !.k = @ + 1], "items_wait", r.containerIds[r.k + 1])
            ELSE [r EXCEPT !.pc = "carousel_create"]
      [] r.pc = "carousel_wait" -> [r EXCEPT !.pc = "carousel_publish"]
      [] OTHER -> r

\* StatusFinished that lets a container still IN_PROGRESS pass
StatusFinished_OrInProgress(status) ==
    status.status_code \in {"FINISHED", "IN_PROGRESS"}
\* StatusFinished taking every status but ERROR for a finished container
StatusFinished_NotError(status) == status.status_code # "ERROR"
\* status.status_code === 'FINISHED'
StatusFinished(status) == status.status_code = "FINISHED"
\* StatusError that takes an EXPIRED container for a failed one
StatusError_OrExpired(status) == status.status_code \in {"ERROR", "EXPIRED"}
\* StatusError testing for a status_code the platform does not use
StatusError_Failed(status) == status.status_code = "FAILED"
\* status.status_code === 'ERROR'
StatusError(status) == status.status_code = "ERROR"

\* checkContainerStatus whose last iteration throws without sleeping first
checkContainerStatus_NoLastSleep(r, resp) ==
    LET q == Logged(r, GetStatus(r.waitId))
    IN IF ~resp.ok THEN Throw(q, FetchError)
       ELSE IF StatusFinished(resp)
            THEN AfterWait(q)
       ELSE IF StatusError(resp)
            THEN Throw(q, FailedError(r.waitId, resp.status))
       ELSE IF r.attempt + 1 < maxAttempts THEN [q EXCEPT !.wstep = "sleep"]
       ELSE Throw(q, TimeoutError(r.waitId))

\* one iteration of the loop up to its sleep: checkContainerStatus and the
\* two tests of its result
checkContainerStatus(r, resp) ==
    LET q == Logged(r, GetStatus(r.waitId))
    IN IF ~resp.ok THEN Throw(q, FetchError)
       ELSE IF StatusFinished(resp)
            THEN AfterWait(q)
       ELSE IF StatusError(resp)
            THEN Throw(q, FailedError(r.waitId, resp.status))
       ELSE [q EXCEPT !.wstep = "sleep"]

\* pollSleep whose loop test is i <= maxAttempts
pollSleep_OffByOne(r) ==
    LET q == Logged(r, Sleep(PollDelayMs))
    IN IF r.attempt + 1 <= maxAttempts
       THEN [q EXCEPT !.wstep = "check", !.attempt = @ + 1]
       ELSE Throw([q EXCEPT !.attempt = @ + 1], TimeoutError(r.waitId))

\* await sleep(2000); i++; the loop test; the throw after the loop
pollSleep(r) ==
    LET q == Logged(r, Sleep(PollDelayMs))
    IN IF r.attempt + 1 < maxAttempts
       THEN [q EXCEPT !.wstep = "check", !.attempt = @ + 1]
       ELSE Throw([q EXCEPT !.attempt = @ + 1], TimeoutError(r.waitId))

(***************************************************************************)
(* The POST calls                                                          *)
(***************************************************************************)
\* createSingleImageContainer(igAccountId, validUrls[0], caption), then the
\* call of waitForContainer(containerId)
createSingleImageContainer(r, resp) ==
    LET q == Logged(r, PostMedia(r.igAccountId, r.validUrls[1], Undefined,
                                 r.caption, Undefined, <<>>))
    IN IF ~resp.ok THEN Throw(q, FetchError)
       ELSE IF resp.error # Undefined
            THEN Throw(q, <<"Failed to create image post: ", resp.error>>)
       ELSE EnterWait([q EXCEPT !.containerIds = <<resp.id>>], "single_wait", resp.id)

\* createMediaContainer that passes over an item the platform refused
createMediaContainer_SkipOnError(r, resp) ==
    LET q == Logged(r, PostMedia(r.igAccountId, r.validUrls[r.i + 1], "true",
                                 Undefined, Undefined, <<>>))
    IN IF ~resp.ok THEN Throw(q, FetchError)
       ELSE IF resp.error # Undefined THEN [q EXCEPT !.pc = "item_sleep"]
       ELSE [q EXCEPT !.containerIds = Append(@, resp.id), !.pc = "item_sleep"]

\* createMediaContainer that also sends the caption with every item
createMediaContainer_WithCaption(r, resp) ==
    LET q == Logged(r, PostMedia(r.igAccountId, r.validUrls[r.i + 1], "true",
                                 r.caption, Undefined, <<>>))
    IN IF ~resp.ok THEN Throw(q, FetchError)
       ELSE IF resp.error # Undefined
            THEN Throw(q, <<"Failed to create media container: ", resp.error>>)
       ELSE [q EXCEPT !.containerIds = Append(@, resp.id), !.pc = "item_sleep"]

\* createMediaContainer(igAccountId, validUrls[i]) with isCarouselItem = true,
\* then containerIds.push(containerId)
createMediaContainer(r, resp) ==
    LET q == Logged(r, PostMedia(r.igAccountId, r.validUrls[r.i + 1], "true",
                                 Undefined, Undefined, <<>>))
    IN IF ~resp.ok THEN Throw(q, FetchError)
       ELSE IF resp.error # Undefined
            THEN Throw(q, <<"Failed to create media container: ", resp.error>>)
       ELSE [q EXCEPT !.containerIds = Append(@, resp.id), !.pc = "item_sleep"]

\* paceSleep whose delay grows with the items created
paceSleep_Backoff(r) ==
    LET q == [Logged(r, Sleep(PaceDelayMs * (r.i + 1))) EXCEPT !.i = @ + 1]
    IN IF q.i < Len(q.validUrls)
       THEN [q EXCEPT !.pc = "item_create"]
       ELSE IF Len(q.containerIds) > 0
            THEN EnterWait([q EXCEPT !.k = 1], "items_wait", q.containerIds[1])
            ELSE [q EXCEPT !.pc = "carousel_create"]

\* paceSleep after which the for-of loop starts at the second container
paceSleep_SkipFirst(r) ==
    LET q == [Logged(r, Sleep(PaceDelayMs)) EXCEPT !.i = @ + 1]
    IN IF q.i < Len(q.validUrls)
       THEN [q EXCEPT !.pc = "item_create"]
       ELSE IF Len(q.containerIds) > 1
            THEN EnterWait([q EXCEPT !.k = 2], "items_wait", q.containerIds[2])
            ELSE [q EXCEPT !.pc = "carousel_create"]

\* await sleep(1000); i++; the loop test; after the loop the first
\* waitForContainer(cid) of the for-of loop over containerIds
paceSleep(r) ==
    LET q == [Logged(r, Sleep(PaceDelayMs)) EXCEPT !.i = @ + 1]
    IN IF q.i < Len(q.validUrls)
       THEN [q EXCEPT !.pc = "item_create"]
       ELSE IF Len(q.containerIds) > 0
            THEN EnterWait([q EXCEPT !.k = 1], "items_wait", q.containerIds[1])
            ELSE [q EXCEPT !.pc = "carousel_create"]

\* createCarouselContainer listing the children last to first
createCarouselContainer_Reversed(r, resp) ==
    LET n == Len(r.containerIds)
        q == Logged(r, PostMedia(r.igAccountId, Undefined, Undefined, r.caption,
                                 "CAROUSEL", [j \in 1..n |-> r.containerIds[n + 1 - j]]))
    IN IF ~resp.ok THEN Throw(q, FetchError)
       ELSE IF resp.error # Undefined
            THEN Throw(q, <<"Failed to create carousel: ", resp.error>>)
       ELSE EnterWait([q EXCEPT !.carouselId = resp.id], "carousel_wait", resp.id)

\* createCarouselContainer(igAccountId, containerIds, caption), then the call
\* of waitForContainer(carouselId)
createCarouselContainer(r, resp) ==
    LET q == Logged(r, PostMedia(r.igAccountId, Undefined, Undefined, r.caption,
                                 "CAROUSEL", r.containerIds))
    IN IF ~resp.ok THEN Throw(q, FetchError)
       ELSE IF resp.error # Undefined
            THEN Throw(q, <<"Failed to create carousel: ", resp.error>>)
       ELSE EnterWait([q EXCEPT !.carouselId = resp.id], "carousel_wait", resp.id)

\* publishMedia that returns the container id it published
publishMedia_ReturnsCreationId(r, creationId, resp) ==
    LET q == Logged(r, PostMediaPublish(r.igAccountId, creationId))
    IN IF ~resp.ok THEN Throw(q, FetchError)
       ELSE IF resp.error # Undefined
            THEN Throw(q, <<"Failed to publish: ", resp.error>>)
       ELSE Return(q, creationId)

\* publishMedia(igAccountId, creationId) and the return of its id
publishMedia(r, creationId, resp) ==
    LET q == Logged(r, PostMediaPublish(r.igAccountId, creationId))
    IN IF ~resp.ok THEN Throw(q, FetchError)
       ELSE IF resp.error # Undefined
            THEN Throw(q, <<"Failed to publish: ", resp.error>>)
       ELSE Return(q, resp.id)

(***************************************************************************)
(* postCarousel(igAccountId, imageUrls, caption, dryRun)                   *)
(***************************************************************************)
\* FilterValid that drops nothing
FilterValid_KeepAll(imageUrls) == imageUrls

\* imageUrls.filter(url => url !== null)
FilterValid(imageUrls) == SelectSeq(imageUrls, LAMBDA url : url # NULL)

NewRun(imageUrls, caption, dryRun) ==
    [pc |-> "entry", igAccountId |-> Acct, imageUrls |-> imageUrls,
     caption |-> caption, dryRun |-> dryRun, validUrls |-> <<>>,
     containerIds |-> <<>>, carouselId |-> Undefined, i |-> 0, k |-> 0,
     wstep |-> "none", waitId |-> Undefined, attempt |-> 0,
     log |-> <<>>, outcome |-> Pending]

\* what is kept of an earlier call of postCarousel: its arguments, the
\* container ids it used, the post id it returned, its calls by kind
NoCall ==
    [called |-> FALSE, imageUrls |-> <<>>, caption |-> Undefined, ids |-> {},
     postId |-> Undefined, items |-> 0, singles |-> 0, parents |-> 0, publishes |-> 0]

\* postCarouselEntry that answers a repeated call with the post it made before
postCarouselEntry_Remembered(r) ==
    LET q == [r EXCEPT !.validUrls = FilterValid(r.imageUrls)]
    IN IF Len(q.validUrls) = 0 THEN Throw(q, <<"No valid image URLs to post">>)
       ELSE IF q.dryRun THEN Return(q, "DRY_RUN_SUCCESS")
       ELSE IF prev.called /\ prev.imageUrls = r.imageUrls /\ prev.caption = r.caption
            THEN Return(q, prev.postId)
       ELSE IF Len(q.validUrls) = 1 THEN [q EXCEPT !.pc = "single_create"]
       ELSE [q EXCEPT !.pc = "item_create"]

\* postCarouselEntry without the dryRun short-circuit
postCarouselEntry_NoDryRun(r) ==
    LET q == [r EXCEPT !.validUrls = FilterValid(r.imageUrls)]
    IN IF Len(q.validUrls) = 0 THEN Throw(q, <<"No valid image URLs to post">>)
       ELSE IF Len(q.validUrls) = 1 THEN [q EXCEPT !.pc = "single_create"]
       ELSE [q EXCEPT !.pc = "item_create"]

\* postCarouselEntry with the dryRun test moved before the length test
postCarouselEntry_DryRunFirst(r) ==
    LET q == [r EXCEPT !.validUrls = FilterValid(r.imageUrls)]
    IN IF q.dryRun THEN Return(q, "DRY_RUN_SUCCESS")
       ELSE IF Len(q.validUrls) = 0 THEN Throw(q, <<"No valid image URLs to post">>)
       ELSE IF Len(q.validUrls) = 1 THEN [q EXCEPT !.pc = "single_create"]
       ELSE [q EXCEPT !.pc = "item_create"]

\* postCarouselEntry without the single-image branch
postCarouselEntry_NoSingle(r) ==
    LET q == [r EXCEPT !.validUrls = FilterValid(r.imageUrls)]
    IN IF Len(q.validUrls) = 0 THEN Throw(q, <<"No valid image URLs to post">>)
       ELSE IF q.dryRun THEN Return(q, "DRY_RUN_SUCCESS")
       ELSE [q EXCEPT !.pc = "item_create"]

\* the synchronous part of postCarousel, up to its first fetch
postCarouselEntry(r) ==
    LET q == [r EXCEPT !.validUrls = FilterValid(r.imageUrls)]
    IN IF Len(q.validUrls) = 0 THEN Throw(q, <<"No valid image URLs to post">>)
       ELSE IF q.dryRun THEN Return(q, "DRY_RUN_SUCCESS")
       ELSE IF Len(q.validUrls) = 1 THEN [q EXCEPT !.pc = "single_create"]
       ELSE [q EXCEPT !.pc = "item_create"]

IsWaiting(r) == r.pc \in {"single_wait", "items_wait", "carousel_wait"}

\* the next step of a run that is given the response `resp`
StepRun(r, resp) ==
    CASE r.pc = "entry" -> postCarouselEntry(r)
      [] r.pc = "single_create" -> createSingleImageContainer(r, resp)
      [] r.pc = "single_publish" -> publishMedia(r, r.containerIds[1], resp)
      [] r.pc = "item_create" -> createMediaContainer(r, resp)
      [] r.pc = "item_sleep" -> paceSleep(r)
      [] r.pc = "carousel_create" -> createCarouselContainer(r, resp)
      [] r.pc = "carousel_publish" -> publishMedia(r, r.carouselId, resp)
      [] IsWaiting(r) /\ r.wstep = "check" -> checkContainerStatus(r, resp)
      [] IsWaiting(r) /\ r.wstep = "sleep" -> pollSleep(r)
      [] OTHER -> r

\* r stands before an `await fetch(...)`
AtFetch(r) ==
    \/ r.pc \in {"single_create", "single_publish", "item_create",
                 "carousel_create", "carousel_publish"}
    \/ IsWaiting(r) /\ r.wstep = "check"

\* the call r's next fetch sends (the one its step logs, whatever the answer)
Outgoing(r) ==
    LET q == StepRun(r, NoResponse) IN q.log[Len(q.log)]

\* Fetches that starts the creation calls of all remaining items together
Fetches_FanOut(r) ==
    IF r.pc = "item_create"
    THEN [j \in 1..(Len(r.validUrls) - r.i) |->
             PostMedia(r.igAccountId, r.validUrls[r.i + j], "true",
                       Undefined, Undefined, <<>>)]
    ELSE <<Outgoing(r)>>

\* the calls r starts before it suspends: every helper is awaited where it
\* is called and awaits its one fetch, so it is the next call alone
Fetches(r) == <<Outgoing(r)>>

(***************************************************************************)
(* The state machine                                                       *)
(***************************************************************************)
\* imageUrls with its null entries removed, relative order kept
RECURSIVE WithoutNulls(_)
WithoutNulls(s) ==
    IF s = <<>> THEN <<>>
    ELSE IF Head(s) = NULL THEN WithoutNulls(Tail(s))
    ELSE <<Head(s)>> \o WithoutNulls(Tail(s))

\* the platform's side of a call answered by `resp`: an answered POST created
\* the object resp.id, a status query answered FINISHED finished its
\* container, any other answer to a status query sets `unfinished`
Serve(pf, call, resp) ==
    LET answered == resp.ok /\ resp.error = Undefined
    IN IF call.op = "GET status"
       THEN IF answered /\ resp.status_code = "FINISHED"
            THEN [pf EXCEPT !.finished = @ \cup {call.container}]
            ELSE [pf EXCEPT !.unfinished = TRUE]
       ELSE IF answered
            THEN [pf EXCEPT !.objects = Append(@, [id |-> resp.id, by |-> call])]
            ELSE pf

\* no pipeline script is running: postCarousel is called directly
NoDriver == [script |-> "none"]

Init ==
    /\ \E imageUrls \in UrlArrays, caption \in Captions, dryRun \in BOOLEAN :
          /\ run = NewRun(imageUrls, caption, dryRun)
          /\ ref = NewRun(WithoutNulls(imageUrls), caption, dryRun)
    /\ nextId = 1
    /\ last = NoResponse
    /\ platform = [objects |-> <<>>, finished |-> {}, unfinished |-> FALSE]
    /\ inflight = <<>>
    /\ prev = NoCall
    /\ drv = NoDriver

\* a step of `run` that awaits no fetch
Local(step(_)) ==
    /\ inflight = <<>>
    /\ inflight' = inflight
    /\ prev' = prev
    /\ drv' = drv
    /\ run' = step(run)
    /\ ref' = StepRun(ref, NoResponse)
    /\ nextId' = nextId
    /\ last' = NoResponse
    /\ platform' = platform

\* `run` sends the request of the fetch it stands before and suspends
Fetch ==
    /\ AtFetch(run) /\ inflight = <<>>
    /\ inflight' = Fetches(run)
    /\ UNCHANGED <<run, ref, nextId, last, platform, prev, drv>>

\* the fetch `run` awaits is answered and the run goes on to its next await;
\* a POST makes the platform create an object (a container, a post) under a
\* fresh id, a GET creates nothing
Remote(step(_, _), method) ==
    \E resp \in Responses(nextId) :
        /\ inflight # <<>>
        /\ inflight' = Tail(inflight)
        /\ prev' = prev
        /\ drv' = drv
        /\ run' = step(run, resp)
        /\ ref' = StepRun(ref, resp)
        /\ nextId' = IF method = "POST" THEN nextId + 1 ELSE nextId
        /\ last' = resp
        /\ platform' = Serve(platform, run'.log[Len(run'.log)], resp)

PostCarousel == run.pc = "entry" /\ Local(postCarouselEntry)

CreateSingleImageContainer ==
    run.pc = "single_create" /\ Remote(createSingleImageContainer, "POST")

PublishSingle ==
    /\ run.pc = "single_publish"
    /\ Remote(LAMBDA r, resp : publishMedia(r, r.containerIds[1], resp), "POST")

CreateMediaContainer == run.pc = "item_create" /\ Remote(createMediaContainer, "POST")

PaceSleep == run.pc = "item_sleep" /\ Local(paceSleep)

CheckContainerStatus ==
    /\ IsWaiting(run) /\ run.wstep = "check"
    /\ Remote(checkContainerStatus, "GET")
    /\ last'.status_code = "FINISHED" => run.attempt < MaxFinishPolls

PollSleep == IsWaiting(run) /\ run.wstep = "sleep" /\ Local(pollSleep)

CreateCarouselContainer ==
    run.pc = "carousel_create" /\ Remote(createCarouselContainer, "POST")

PublishCarousel ==
    /\ run.pc = "carousel_publish"
    /\ Remote(LAMBDA r, resp : publishMedia(r, r.carouselId, resp), "POST")

Next ==
    \/ PostCarousel
    \/ Fetch
    \/ CreateSingleImageContainer
    \/ PublishSingle
    \/ CreateMediaContainer
    \/ PaceSleep
    \/ CheckContainerStatus
    \/ PollSleep
    \/ CreateCarouselContainer
    \/ PublishCarousel

Spec == Init /\ [][Next]_vars

\* CallAgain that finds the containerIds array of the earlier call
CallAgain_KeepsContainers(r) ==
    [NewRun(r.imageUrls, r.caption, r.dryRun) EXCEPT !.containerIds = r.containerIds]

\* the arguments of r, passed to postCarousel once more in the same process:
\* nothing of the earlier call is left (postCarousel has only local
\* variables, the module no mutable binding)
CallAgain(r) == NewRun(r.imageUrls, r.caption, r.dryRun)

\* what `prev` keeps of the returned run r
Kept(r) ==
    LET creations == SelectSeq(r.log, LAMBDA e : e.op = "POST media")
    IN [called |-> TRUE, imageUrls |-> r.imageUrls, caption |-> r.caption,
        ids |-> {r.containerIds[j] : j \in 1..Len(r.containerIds)}
                  \cup (IF r.carouselId = Undefined THEN {} ELSE {r.carouselId}),
        postId |-> r.outcome.value,
        items |-> Len(SelectSeq(creations, LAMBDA e : e.is_carousel_item = "true")),
        singles |-> Len(SelectSeq(creations,
                       LAMBDA e : e.is_carousel_item = Undefined
                                     /\ e.media_type = Undefined)),
        parents |-> Len(SelectSeq(creations, LAMBDA e : e.media_type = "CAROUSEL")),
        publishes |-> Len(SelectSeq(r.log, LAMBDA e : e.op = "POST media_publish"))]

\* a non-simulated call that got as far as its publish call has returned
\* its post id, or has failed at that call, and the caller calls
\* postCarousel a second time with the same arguments; the platform keeps
\* what the first call created and goes on numbering its objects.  `ref`
\* becomes the same call made in a process that has made no call before.
PostCarouselAgain ==
    /\ ~prev.called
    /\ run.pc = "done" /\ ~run.dryRun
    /\ run.log # <<>> /\ run.log[Len(run.log)].op = "POST media_publish"
    /\ prev' = Kept(run)
    /\ run' = CallAgain(run)
    /\ ref' = NewRun(ref.imageUrls, ref.caption, ref.dryRun)
    /\ last' = NoResponse
    /\ UNCHANGED <<nextId, platform, inflight, drv>>

NextTwice == Next \/ PostCarouselAgain

SpecTwice == Init /\ [][NextTwice]_vars

(***************************************************************************)
(* The pipeline scripts: index (main of the poster), post-carousels and    *)
(* test-token.  `drv` is one process running one of them; each await of    *)
(* its main is a step.  postCarousel is taken by what a run of it yields:  *)
(* the value or error its first synchronous part already decides, or else  *)
(* a post id or an error.  drv.log holds the network calls, the            *)
(* invocations of postCarousel with their outcomes, and the sleeps.        *)
(***************************************************************************)
\* posts in the content file
MaxPosts == 2
\* images a post has (slides captured for it): none, or a carousel of two
SlideCounts == {0, 2}
\* config.posting.spacingMs, default
spacingMs == 10800000
\* delay after a successful upload
UploadDelayMs == 500

\* onlyPostIndex / specificPost when no --post-index is given (null)
NoIndex == -1

Configs ==
    [accessToken : {Undefined, "PASTE_YOUR_TOKEN_HERE", "token"},
     imgbbKey : {Undefined, "key"},
     accountId : {Undefined, Acct}]
\* posts[p] is the number of images of the post with id p
PostLists == UNION {[1..n -> SlideCounts] : n \in 1..MaxPosts}

\* what fetch(`/me?fields=...`) followed by res.json() yields
MeResponses ==
    [ok : {TRUE}, error : {Undefined}, id : {Acct, Undefined},
     username : {"dailyainewsone", Undefined}, name : {"Daily AI News", Undefined}]
    \cup
    [ok : {TRUE}, error : Messages, id : {Undefined},
     username : {Undefined}, name : {Undefined}]
    \cup
    [ok : {FALSE}, error : {Undefined}, id : {Undefined},
     username : {Undefined}, name : {Undefined}]
NoMe ==
    [ok |-> TRUE, error |-> Undefined, id |-> Undefined,
     username |-> Undefined, name |-> Undefined]

\* effects of a script
GetMe(by) == [op |-> "GET me", by |-> by]
Upload(post, slide) == [op |-> "POST imgbb", post |-> post, slide |-> slide]
Invoke(post, igAccountId, imageUrls, dryRun) ==
    [op |-> "postCarousel", post |-> post, igAccountId |-> igAccountId,
     imageUrls |-> imageUrls, dryRun |-> dryRun]
Settled(post, outcome) == [op |-> "settled", post |-> post, outcome |-> outcome]

UploadedUrl(post, slide) == "u" \o ToString(post) \o "_" \o ToString(slide)
\* `https://example.com/${basename}` (index),
\* `https://i.ibb.co/fake/post${postNum}_slide${slideNum}.png` (post-carousels)
FakeUrl(script, post, slide) ==
    (IF script = "index" THEN "https://example.com/" ELSE "https://i.ibb.co/fake/")
        \o ToString(post) \o "_" \o ToString(slide)

\* a || b of JavaScript on values that are strings or undefined
Or(a, b) == IF a # Undefined THEN a ELSE b
\* !v for a post index: null and 0 are falsy
Falsy(v) == v \in {NoIndex, 0}

\* config.js validateConfig: true iff no error was collected
validateConfig(c) ==
    /\ c.accessToken \notin {Undefined, "PASTE_YOUR_TOKEN_HERE"}
    /\ c.imgbbKey # Undefined

\* validateToken: fetch and res.json() are awaited outside any try
validateToken(resp) ==
    IF ~resp.ok THEN Thrown(FetchError)
    ELSE IF resp.error # Undefined
         THEN Returned([valid |-> FALSE, error |-> resp.error,
                        name |-> Undefined, id |-> Undefined])
    ELSE Returned([valid |-> TRUE, error |-> Undefined,
                   name |-> Or(resp.username, Or(resp.name, resp.id)),
                   id |-> resp.id])

AccountNotFound ==
    <<"Could not find Instagram Business Account.\nMake sure @dailyainewsone is a Business/Creator account.">>

\* getInstagramAccountId that returns data.id without testing it
getInstagramAccountId_NoIdTest(c, resp) ==
    IF c.accountId # Undefined THEN Returned(c.accountId)
    ELSE IF ~resp.ok THEN Thrown(FetchError)
    ELSE IF resp.error # Undefined
         THEN Thrown(<<"Instagram API error: ", resp.error>>)
    ELSE Returned(resp.id)

getInstagramAccountId(c, resp) ==
    IF c.accountId # Undefined THEN Returned(c.accountId)
    ELSE IF ~resp.ok THEN Thrown(FetchError)
    ELSE IF resp.error # Undefined
         THEN Thrown(<<"Instagram API error: ", resp.error>>)
    ELSE IF resp.id = Undefined THEN Thrown(AccountNotFound)
    ELSE Returned(resp.id)

\* uploadImage inside the try/catch of its caller: no key throws before the
\* fetch; a failed upload yields null; a successful one is followed by the
\* upload delay
uploadImage(c, post, slide, ok) ==
    IF c.imgbbKey = Undefined THEN [url |-> NULL, effects |-> <<>>]
    ELSE IF ok
         THEN [url |-> UploadedUrl(post, slide),
               effects |-> <<Upload(post, slide), Sleep(UploadDelayMs)>>]
    ELSE [url |-> NULL, effects |-> <<Upload(post, slide)>>]

\* an upload loop that pushes nothing for a failed upload
RECURSIVE uploadImages_DropsFailures(_, _, _, _)
uploadImages_DropsFailures(c, post, n, ok) ==
    IF n = 0 THEN [urls |-> <<>>, effects |-> <<>>]
    ELSE LET rest == uploadImages_DropsFailures(c, post, n - 1, ok)
             one == uploadImage(c, post, n, ok[n])
         IN [urls |-> IF one.url = NULL THEN rest.urls ELSE Append(rest.urls, one.url),
             effects |-> rest.effects \o one.effects]

\* uploadImages / the inner loop of uploadAllSlides on the n images of a
\* post; ok[s] tells whether the upload of image s succeeds
RECURSIVE uploadImages(_, _, _, _)
uploadImages(c, post, n, ok) ==
    IF n = 0 THEN [urls |-> <<>>, effects |-> <<>>]
    ELSE LET rest == uploadImages(c, post, n - 1, ok)
             one == uploadImage(c, post, n, ok[n])
         IN [urls |-> Append(rest.urls, one.url),
             effects |-> rest.effects \o one.effects]

fakeUrls(script, post, n) == [s \in 1..n |-> FakeUrl(script, post, s)]

\* what awaiting postCarousel(igAccountId, imageUrls, caption, dryRun) yields
PostOutcomes(imageUrls, dryRun) ==
    LET e == postCarouselEntry(NewRun(imageUrls, "caption", dryRun))
    IN IF e.pc = "done" THEN {e.outcome}
       ELSE {Returned(IdOf(Len(e.validUrls) + 2))}
              \cup {Thrown(<<"Failed to publish: ", m>>) : m \in Messages}

NewDriver(script, dryRun, onlyPostIndex, c, posts) ==
    [script |-> script, dryRun |-> dryRun, onlyPostIndex |-> onlyPostIndex,
     config |-> c, posts |-> posts, pc |-> "start", step |-> "none",
     batch |-> <<>>, i |-> 0, igAccountId |-> Undefined, imageUrls |-> <<>>,
     uploadedByPost |-> [p \in 1..Len(posts) |-> <<>>],
     log |-> <<>>, exit |-> <<>>, error |-> <<>>]

Drivers ==
    {NewDriver(script, dryRun, only, c, posts) :
        script \in {"index", "post-carousels"}, dryRun \in BOOLEAN,
        only \in {NoIndex} \cup (0..MaxPosts), c \in Configs, posts \in PostLists}
    \cup {NewDriver("test-token", FALSE, NoIndex, c, <<>>) : c \in Configs}

\* process.exit(code), or main running to its end (code 0); d.exit is empty
\* while the script runs
Exit(d, code) == [d EXCEPT !.pc = "done", !.exit = <<code>>]
\* an error that leaves main: main().catch prints it and exits with 1
\* (test-token: the catch around getInstagramAccountId does the same)
Fatal(d, parts) == [d EXCEPT !.pc = "done", !.exit = <<1>>, !.error = parts]
Did(d, effects) == [d EXCEPT !.log = @ \o effects]

\* main that validates the token in a dry run too
main_AlwaysValidates(d) ==
    LET stop == IF d.script = "post-carousels" THEN FALSE
                ELSE ~validateConfig(d.config)
    IN IF stop THEN Exit(d, 1) ELSE [d EXCEPT !.pc = "validate_token"]

\* main up to its first await.  post-carousels tests
\* `validateConfig().length > 0`: the length of a boolean is undefined and
\* undefined > 0 is false, so it goes on whatever validateConfig returned
main(d) ==
    LET stop == IF d.script = "post-carousels" THEN FALSE
                ELSE ~validateConfig(d.config)
    IN IF stop THEN Exit(d, 1)
       ELSE IF ~d.dryRun THEN [d EXCEPT !.pc = "validate_token"]
       ELSE [d EXCEPT !.pc = "load",
                      !.igAccountId = IF d.script = "index"
                                      THEN Or(d.config.accountId, "DRY_RUN_ID")
                                      ELSE "DRY_RUN_ID"]

\* const tokenCheck = await validateToken(); if (!tokenCheck.valid) exit(1)
tokenCheck(d, resp) ==
    LET q == Did(d, <<GetMe("validateToken")>>)
        o == validateToken(resp)
    IN IF o.status = "thrown" THEN Fatal(q, o.error)
       ELSE IF ~o.value.valid THEN Exit(q, 1)
       ELSE [q EXCEPT !.pc = "account"]

\* a lookup that sends the probe even when an account id is configured
accountId_AlwaysProbes(d, resp) ==
    LET q == Did(d, <<GetMe("getInstagramAccountId")>>)
        o == getInstagramAccountId([d.config EXCEPT !.accountId = Undefined], resp)
    IN IF o.status = "thrown" THEN Fatal(q, o.error)
       ELSE IF d.script = "test-token"
            THEN Exit([q EXCEPT !.igAccountId = o.value], 0)
       ELSE [q EXCEPT !.igAccountId = o.value, !.pc = "load"]

\* igAccountId = await getInstagramAccountId(); test-token ends after it
accountId(d, resp) ==
    LET q == IF d.config.accountId # Undefined THEN d
             ELSE Did(d, <<GetMe("getInstagramAccountId")>>)
        o == getInstagramAccountId(d.config, resp)
    IN IF o.status = "thrown" THEN Fatal(q, o.error)
       ELSE IF d.script = "test-token"
            THEN Exit([q EXCEPT !.igAccountId = o.value], 0)
       ELSE [q EXCEPT !.igAccountId = o.value, !.pc = "load"]

\* index: loadContent and the choice of postsToPublish;
\* post-carousels: the content file and captureAllSlides
loadContent(d) ==
    LET ids == [p \in 1..Len(d.posts) |-> p]
    IN IF d.script = "post-carousels"
       THEN [d EXCEPT !.batch = ids, !.pc = "upload_all"]
       ELSE IF d.onlyPostIndex = NoIndex THEN [d EXCEPT !.batch = ids, !.pc = "loop"]
       ELSE LET chosen == SelectSeq(ids, LAMBDA p : p = d.onlyPostIndex)
            IN IF Len(chosen) = 0 THEN Exit(d, 1)
               ELSE [d EXCEPT !.batch = chosen, !.pc = "loop"]

\* uploadAllSlides, the slides of one post (d.i counts the posts done)
uploadAllSlides(d, ok) ==
    LET post == d.i + 1
        n == d.posts[post]
        up == IF d.dryRun
              THEN [urls |-> fakeUrls(d.script, post, n), effects |-> <<>>]
              ELSE uploadImages(d.config, post, n, ok)
        q == [Did(d, up.effects) EXCEPT !.uploadedByPost[post] = up.urls]
    IN IF post = Len(d.posts) THEN [q EXCEPT !.i = 0, !.pc = "loop"]
       ELSE [q EXCEPT !.i = post]

\* the head of one iteration of the loop over the posts, up to the call of
\* postCarousel; `continue` goes to the next iteration
loopHead(d, ok) ==
    IF d.i >= Len(d.batch) THEN Exit(d, 0)
    ELSE LET post == d.batch[d.i + 1]
             n == d.posts[post]
         IN IF d.script = "index"
            THEN IF n = 0 THEN [d EXCEPT !.i = @ + 1]
                 ELSE IF d.dryRun
                      THEN [d EXCEPT !.imageUrls = fakeUrls(d.script, post, n),
                                     !.pc = "post"]
                 ELSE LET up == uploadImages(d.config, post, n, ok)
                      IN [Did(d, up.effects) EXCEPT !.imageUrls = up.urls,
                                                    !.pc = "post"]
            ELSE IF d.onlyPostIndex # NoIndex /\ post # d.onlyPostIndex
                 THEN [d EXCEPT !.i = @ + 1]
            ELSE IF Len(d.uploadedByPost[post]) = 0 THEN [d EXCEPT !.i = @ + 1]
            ELSE [d EXCEPT !.imageUrls = d.uploadedByPost[post], !.pc = "post"]

\* postCarousel is called
invoke(d) ==
    [Did(d, <<Invoke(d.batch[d.i + 1], d.igAccountId, d.imageUrls, d.dryRun)>>)
        EXCEPT !.pc = "posting"]

\* a driver without the try/catch around postCarousel
afterPost_Uncaught(d, outcome) ==
    LET q == Did(d, <<Settled(d.batch[d.i + 1], outcome)>>)
    IN IF outcome.status = "thrown" THEN Fatal(q, outcome.error) ELSE q

\* try { postId = await postCarousel(...) } catch (err) { console.error }
afterPost(d, outcome) == Did(d, <<Settled(d.batch[d.i + 1], outcome)>>)

\* a driver that never waits between posts
cooldownDue_Never(d) == FALSE

\* the test that guards the wait between posts
cooldownDue(d) ==
    IF d.script = "index"
    THEN d.i < Len(d.batch) - 1 /\ ~d.dryRun /\ Falsy(d.onlyPostIndex)
    ELSE ~d.dryRun /\ d.i < Len(d.batch) - 1 /\ d.onlyPostIndex = NoIndex

\* the rest of the iteration once postCarousel has settled
settle(d, outcome) ==
    LET q == afterPost(d, outcome)
    IN IF q.pc = "done" THEN q
       ELSE IF cooldownDue(q) THEN [q EXCEPT !.pc = "cooldown"]
       ELSE [q EXCEPT !.i = @ + 1, !.pc = "loop"]

\* await sleepWithCountdown(spacingMs) / await sleep(spacingMs)
cooldown(d) == [Did(d, <<Sleep(spacingMs)>>) EXCEPT !.i = @ + 1, !.pc = "loop"]

Idle == NewRun(<<>>, "caption", FALSE)

InitBatch ==
    /\ drv \in Drivers
    /\ run = Idle /\ ref = Idle
    /\ nextId = 1
    /\ last = NoMe
    /\ platform = [objects |-> <<>>, finished |-> {}, unfinished |-> FALSE]
    /\ inflight = <<>>
    /\ prev = NoCall

\* a step of the script that awaits no /me probe
Script(name, d) ==
    /\ drv' = [d EXCEPT !.step = name]
    /\ last' = NoMe
    /\ UNCHANGED <<run, ref, nextId, platform, inflight, prev>>

\* a step of the script that awaits a /me probe answered by resp
Probe(name, d, resp) ==
    /\ drv' = [d EXCEPT !.step = name]
    /\ last' = resp
    /\ UNCHANGED <<run, ref, nextId, platform, inflight, prev>>

Main == drv.pc = "start" /\ Script("main", main(drv))

ValidateToken ==
    /\ drv.pc = "validate_token"
    /\ \E resp \in MeResponses :
          Probe("validateToken", tokenCheck(drv, resp), resp)

GetInstagramAccountId ==
    /\ drv.pc = "account"
    /\ \E resp \in (IF drv.config.accountId # Undefined THEN {NoMe} ELSE MeResponses) :
          Probe("getInstagramAccountId", accountId(drv, resp), resp)

LoadContent == drv.pc = "load" /\ Script("loadContent", loadContent(drv))

UploadAllSlides ==
    /\ drv.pc = "upload_all"
    /\ \E ok \in [1..drv.posts[drv.i + 1] -> BOOLEAN] :
          Script("uploadAllSlides", uploadAllSlides(drv, ok))

LoopHead ==
    /\ drv.pc = "loop"
    /\ \E ok \in [1..(IF drv.i < Len(drv.batch) THEN drv.posts[drv.batch[drv.i + 1]]
                      ELSE 0) -> BOOLEAN] :
          Script("loopHead", loopHead(drv, ok))

InvokePostCarousel == drv.pc = "post" /\ Script("invoke", invoke(drv))

PostCarouselSettles ==
    /\ drv.pc = "posting"
    /\ \E outcome \in PostOutcomes(drv.imageUrls, drv.dryRun) :
          Script("settle", settle(drv, outcome))

Cooldown == drv.pc = "cooldown" /\ Script("cooldown", cooldown(drv))

NextBatch ==
    \/ Main
    \/ ValidateToken
    \/ GetInstagramAccountId
    \/ LoadContent
    \/ UploadAllSlides
    \/ LoopHead
    \/ InvokePostCarousel
    \/ PostCarouselSettles
    \/ Cooldown

SpecBatch == InitBatch /\ [][NextBatch]_vars

(***************************************************************************)
(* Observations of a run                                                   *)
(***************************************************************************)
\* the non-null entries of the array `run` was called with, in order
NonNull == WithoutNulls(run.imageUrls)
HasNonNull == \E p \in 1..Len(run.imageUrls) : run.imageUrls[p] # NULL

Finished == run.pc = "done"
\* the effect `run` produced latest (only asked of a non-empty log)
LastEffect == run.log[Len(run.log)]
\* the remote calls of `run`, in the order issued
Calls == SelectSeq(run.log, LAMBDA e : e.op # "sleep")
Sleeps == SelectSeq(run.log, LAMBDA e : e.op = "sleep")
Creations == SelectSeq(run.log, LAMBDA e : e.op = "POST media")
ItemCreations ==
    SelectSeq(run.log, LAMBDA e : e.op = "POST media" /\ e.is_carousel_item = "true")
ParentCreations ==
    SelectSeq(run.log, LAMBDA e : e.op = "POST media" /\ e.media_type = "CAROUSEL")
Publishes == SelectSeq(run.log, LAMBDA e : e.op = "POST media_publish")
StatusQueries == SelectSeq(run.log, LAMBDA e : e.op = "GET status")
QueriesOf(c) == SelectSeq(run.log, LAMBDA e : e.op = "GET status" /\ e.container = c)

\* the latest step of `run` was a status query, answered by `last`
StatusJustQueried ==
    /\ last # NoResponse
    /\ run.log # <<>>
    /\ LastEffect.op = "GET status"

(***************************************************************************)
(* C1 - simulate mode                                                      *)
(***************************************************************************)
\* C1: called with dryRun = true on an array with at least one non-null
\* entry, postCarousel issues no remote call and performs no sleep (its log
\* of effects stays empty), and when it has ended it has returned the
\* sentinel 'DRY_RUN_SUCCESS'.
C1_DryRunTouchesNothing ==
    (run.dryRun /\ HasNonNull) =>
        /\ run.log = <<>>
        /\ run.pc \in {"entry", "done"}
        /\ Finished => run.outcome = Returned("DRY_RUN_SUCCESS")

C1_Witness ==
    /\ run.dryRun /\ Len(NonNull) >= 2 /\ Len(NonNull) < Len(run.imageUrls)
    /\ Finished /\ run.outcome.status = "returned"

(***************************************************************************)
(* C2 - no valid media                                                     *)
(***************************************************************************)
\* C2: called on an empty or all-null array, postCarousel throws 'No valid
\* image URLs to post' whether dryRun is true or false, and issues no remote
\* call.
C2_NoValidMedia ==
    ~HasNonNull =>
        /\ run.log = <<>>
        /\ run.pc \in {"entry", "done"}
        /\ Finished => run.outcome = Thrown(<<"No valid image URLs to post">>)

C2_Witness ==
    /\ run.dryRun /\ Len(run.imageUrls) >= 2 /\ ~HasNonNull
    /\ Finished /\ run.outcome.status = "thrown"

(***************************************************************************)
(* C3 - a container that reports ERROR                                     *)
(***************************************************************************)
\* C3: when a status query (for the single-image container, an item
\* container or the carousel parent) is answered with status_code ERROR, the
\* run has ended by throwing `Container <id> failed: <status>` with the id of
\* the queried container and the status text the platform reported, and its
\* log holds no media_publish call (the run being over, none follows).
C3_ErrorStatusAborts ==
    (StatusJustQueried /\ last.status_code = "ERROR") =>
        /\ Finished
        /\ run.outcome.status = "thrown"
        /\ Len(run.outcome.error) = 4
        /\ run.outcome.error[1] = "Container "
        /\ run.outcome.error[2] = LastEffect.container
        /\ run.outcome.error[3] = " failed: "
        /\ last.status # Undefined => run.outcome.error[4] = last.status
        /\ Publishes = <<>>

\* a carousel parent reported ERROR with a status text
C3_Witness ==
    /\ StatusJustQueried /\ last.status_code = "ERROR" /\ last.status # Undefined
    /\ Len(NonNull) >= 2
    /\ ParentCreations # <<>>
    /\ LastEffect.container = run.carouselId
    /\ Finished

(***************************************************************************)
(* C4 - a container that never finishes                                    *)
(***************************************************************************)
\* the container of the latest status query (only asked when there is one)
LastQueried == StatusQueries[Len(StatusQueries)].container

\* the latest step was the sleep that follows a status query, and the
\* container queried has by then been queried maxAttempts times
BudgetExhausted ==
    /\ run.log # <<>>
    /\ LastEffect = Sleep(PollDelayMs)
    /\ Len(QueriesOf(LastQueried)) >= maxAttempts

TimedOut ==
    /\ Finished
    /\ run.outcome.status = "thrown"
    /\ Len(run.outcome.error) = 5
    /\ run.outcome.error[3] = " timed out after "

\* C4 as stated: the timeout error carries the number of poll attempts made
\* for the container, and no publish call was issued.
C4_TimeoutCarriesAttempts ==
    TimedOut =>
        /\ \E n \in 1..Len(run.outcome.error) :
              run.outcome.error[n] = ToString(Len(QueriesOf(run.outcome.error[2])))
        /\ Publishes = <<>>

\* C4 amended: once a container has been queried maxAttempts times without
\* reporting FINISHED or ERROR, the run has ended by throwing `Container <id>
\* timed out after <s> seconds`, where <id> is that container and <s> is
\* twice the number of status queries made for it (60, the seconds slept),
\* not the attempt count; no publish call was issued.  A run throws this
\* error in no other case.
C4_TimeoutCarriesSeconds ==
    /\ BudgetExhausted =>
          /\ Finished
          /\ run.outcome =
                Thrown(<<"Container ", LastQueried, " timed out after ",
                         ToString(2 * Len(QueriesOf(LastQueried))), " seconds">>)
          /\ Publishes = <<>>
    /\ TimedOut => BudgetExhausted

\* the carousel parent timed out after every item had finished
C4_Witness ==
    /\ TimedOut /\ BudgetExhausted
    /\ Len(NonNull) >= 2
    /\ ParentCreations # <<>>
    /\ run.outcome.error[2] = run.carouselId
    /\ Len(QueriesOf(run.carouselId)) = maxAttempts

(***************************************************************************)
(* C5 - a response with an error object                                    *)
(***************************************************************************)
\* C5: whenever the response to a remote call of postCarousel (a creation, a
\* status query, a publish) holds an error object, the run has ended by
\* throwing an error that carries the platform's message, so that no remote
\* call follows.
C5_ErrorObjectAborts ==
    (last.ok /\ last.error # Undefined) =>
        /\ Finished
        /\ run.outcome.status = "thrown"
        /\ Len(run.outcome.error) = 2
        /\ run.outcome.error[2] = last.error

(***************************************************************************)
(* C6 - slide order                                                        *)
(***************************************************************************)
\* the objects the platform created for carousel-item creation calls
ItemObjects ==
    SelectSeq(platform.objects,
              LAMBDA o : o.by.op = "POST media" /\ o.by.is_carousel_item = "true")
\* the ids the platform returned for the item creation calls, in call order
ItemIds == [j \in 1..Len(ItemObjects) |-> ItemObjects[j].id]

\* C6: for N >= 2 non-null URLs the k-th item creation call carries the
\* k-th non-null URL, and the `children` of the carousel-parent creation
\* call are the N container ids the platform returned for those calls, in
\* the order of the calls.
C6_OrderPreserved ==
    (~run.dryRun /\ Len(NonNull) >= 2) =>
        LET urls == NonNull
            items == ItemCreations
            parents == ParentCreations
        IN /\ Len(items) <= Len(urls)
           /\ \A j \in 1..Len(items) : items[j].image_url = urls[j]
           /\ \A j \in 1..Len(parents) :
                 /\ parents[j].children = ItemIds
                 /\ Len(parents[j].children) = Len(urls)

C6_Witness ==
    /\ ~run.dryRun /\ Len(NonNull) = 3
    /\ ParentCreations # <<>>
    /\ ParentCreations[1].children = <<IdOf(1), IdOf(2), IdOf(3)>>

(***************************************************************************)
(* C7 - the single-image path                                              *)
(***************************************************************************)
\* C7: with exactly one non-null URL and dryRun = false, the run issues one
\* creation call and no more; it carries the image URL and the caption, no
\* is_carousel_item and no media_type (so no CAROUSEL call is issued); a run
\* that returns has published the container the platform created for that
\* call and returns the id the publish call returned.
C7_SingleImagePath ==
    (~run.dryRun /\ Len(NonNull) = 1) =>
        /\ Len(Creations) <= 1
        /\ \A j \in 1..Len(Creations) :
              Creations[j] = PostMedia(Acct, NonNull[1], Undefined, run.caption,
                                       Undefined, <<>>)
        /\ Finished => Len(Creations) = 1
        /\ (Finished /\ run.outcome.status = "returned") =>
              /\ Len(platform.objects) = 2
              /\ Publishes = <<PostMediaPublish(Acct, platform.objects[1].id)>>
              /\ LastEffect = Publishes[1]
              /\ run.outcome.value = last.id
              /\ run.outcome.value = platform.objects[2].id

C7_Witness ==
    /\ ~run.dryRun /\ Len(NonNull) = 1 /\ Len(run.imageUrls) = 3
    /\ Finished /\ run.outcome.status = "returned"

(***************************************************************************)
(* C8 - nothing is used before it has finished                             *)
(***************************************************************************)
\* C8: when the run issues a media_publish call, the platform has answered
\* FINISHED to a status query for the container being published; when it
\* issues the carousel-parent creation call, the platform has answered
\* FINISHED for every child container, one by one.  (Stated of the step that
\* issues the call, for every sequence of responses.)
C8_FinishedBeforeUse ==
    run.log # <<>> =>
        /\ LastEffect.op = "POST media_publish" =>
              LastEffect.creation_id \in platform.finished
        /\ (LastEffect.op = "POST media" /\ LastEffect.media_type = "CAROUSEL") =>
              /\ \A j \in 1..Len(ItemIds) : ItemIds[j] \in platform.finished
              /\ \A j \in 1..Len(LastEffect.children) :
                    LastEffect.children[j] \in platform.finished

\* a carousel published after its parent was found unfinished at first
C8_Witness ==
    /\ run.log # <<>>
    /\ LastEffect.op = "POST media_publish"
    /\ Len(ParentCreations) = 1
    /\ Len(QueriesOf(LastEffect.creation_id)) >= 2
    /\ Cardinality(platform.finished) = Len(NonNull) + 1

(***************************************************************************)
(* C9 - the calls of a smooth carousel run                                 *)
(***************************************************************************)
\* the calls of a run on N >= 2 URLs in which every call succeeds and every
\* container is FINISHED at its first check
SmoothCalls(N) ==
    [j \in 1..(2 * N + 3) |->
        IF j <= N
        THEN PostMedia(Acct, NonNull[j], "true", Undefined, Undefined, <<>>)
        ELSE IF j <= 2 * N THEN GetStatus(platform.objects[j - N].id)
        ELSE IF j = 2 * N + 1
        THEN PostMedia(Acct, Undefined, Undefined, run.caption, "CAROUSEL",
                       [c \in 1..N |-> platform.objects[c].id])
        ELSE IF j = 2 * N + 2 THEN GetStatus(platform.objects[N + 1].id)
        ELSE PostMediaPublish(Acct, platform.objects[N + 1].id)]

\* C9: a run with dryRun = false on N >= 2 non-null URLs that returned, all
\* of whose status queries were answered FINISHED, issued exactly: N item
\* creations in URL order, one status query per child in creation order,
\* one parent creation listing the N ids in order, one status query for the
\* parent, one publish of the parent; and it returned the id the publish
\* call returned.  (N = 3: 3, 4, 1, 1.)
C9_SmoothRunCalls ==
    (~run.dryRun /\ Len(NonNull) >= 2 /\ Finished
        /\ run.outcome.status = "returned" /\ ~platform.unfinished) =>
        LET N == Len(NonNull) IN
        /\ Len(platform.objects) = N + 2
        /\ Calls = SmoothCalls(N)
        /\ Len(ItemCreations) = N
        /\ Len(StatusQueries) = N + 1
        /\ Len(ParentCreations) = 1
        /\ Len(Publishes) = 1
        /\ run.outcome.value = platform.objects[N + 2].id
        /\ run.outcome.value = last.id

C9_Witness ==
    /\ ~run.dryRun /\ Len(NonNull) = 3 /\ Finished
    /\ run.outcome.status = "returned" /\ ~platform.unfinished
    /\ Len(ItemCreations) = 3 /\ Len(StatusQueries) = 4

(***************************************************************************)
(* C10 - null entries are transparent                                      *)
(***************************************************************************)
\* C10: `ref` was called on the array of `run` with the null entries removed
\* and is given the responses `run` is given; step by step the two runs have
\* produced the same effects in the same order and have the same outcome.
C10_NullsTransparent ==
    /\ ref.imageUrls = NonNull
    /\ run.log = ref.log
    /\ run.outcome = ref.outcome

\* [null, u, null] has gone down the single-image path like [u]
C10_Witness ==
    /\ run.imageUrls = <<NULL, UrlOf(2), NULL>>
    /\ ref.imageUrls = <<UrlOf(2)>>
    /\ ~run.dryRun /\ Finished /\ run.outcome.status = "returned"
    /\ Len(Creations) = 1 /\ Creations[1].caption = run.caption

(***************************************************************************)
(* C19 - no idempotency                                                    *)
(***************************************************************************)
\* the container ids `run` has used
IdsUsed ==
    {run.containerIds[j] : j \in 1..Len(run.containerIds)}
        \cup (IF run.carouselId = Undefined THEN {} ELSE {run.carouselId})
\* the posts the platform has made: the objects created by a publish call
Posts == SelectSeq(platform.objects, LAMBDA o : o.by.op = "POST media_publish")

\* C19: when a non-simulated call of postCarousel has returned and a second
\* call with the same arguments has returned too, the second call has issued
\* as many creation calls of each kind and as many publish calls as the
\* first (N item creations, one parent creation and one publish each for
\* N >= 2 URLs), it has used and published only container ids of its own,
\* none of them an id of the first call, and the platform holds two posts,
\* the two post ids returned being different.
C19_NoIdempotency ==
    (prev.called /\ prev.postId # Undefined /\ ~run.dryRun
        /\ Finished /\ run.outcome.status = "returned") =>
        /\ run.imageUrls = prev.imageUrls /\ run.caption = prev.caption
        /\ Len(ItemCreations) = prev.items
        /\ Len(ParentCreations) = prev.parents
        /\ Len(Publishes) = prev.publishes /\ Len(Publishes) = 1
        /\ Len(Creations) = prev.items + prev.singles + prev.parents
        /\ Len(NonNull) >= 2 =>
              /\ Len(ItemCreations) = Len(NonNull)
              /\ Len(ParentCreations) = 1
              /\ \A j \in 1..Len(ParentCreations[1].children) :
                    ParentCreations[1].children[j] \notin prev.ids
        /\ Len(NonNull) = 1 => (Len(Creations) = 1 /\ prev.singles = 1)
        /\ IdsUsed \cap prev.ids = {}
        /\ Cardinality(IdsUsed) = Cardinality(prev.ids)
        /\ Publishes[1].creation_id \in IdsUsed
        /\ run.outcome.value # prev.postId
        /\ Len(Posts) = 2
        /\ {Posts[j].id : j \in 1..2} = {prev.postId, run.outcome.value}

\* a carousel of three items published twice
C19_Witness ==
    /\ prev.called /\ prev.postId # Undefined /\ ~run.dryRun /\ Finished /\ run.outcome.status = "returned"
    /\ Len(NonNull) = 3 /\ Len(ItemCreations) = 3 /\ Len(Posts) = 2

(***************************************************************************)
(* C11 - no retry, first failure ends the run                              *)
(***************************************************************************)
\* the latest step of `run` was a remote call answered with an error object
ErrorObjectAnswered == last.ok /\ last.error # Undefined
\* the latest step of `run` was a status query answered ERROR
ErrorStatusAnswered ==
    StatusJustQueried /\ last.ok /\ last.error = Undefined /\ last.status_code = "ERROR"

\* C11: no URL gets two creation calls, the run issues at most one
\* parent-creation call and at most one publish call, and a step that fails
\* (a response with an error object, a status ERROR, the poll budget
\* exhausted) has ended the run, so that no remote call follows it.
C11_NoRetryFirstFailureEnds ==
    /\ \A j, k \in 1..Len(Creations) :
          (j # k /\ Creations[j].image_url # Undefined) =>
              Creations[j].image_url # Creations[k].image_url
    /\ Len(ParentCreations) <= 1
    /\ Len(Publishes) <= 1
    /\ (ErrorObjectAnswered \/ ErrorStatusAnswered \/ BudgetExhausted) => Finished

(***************************************************************************)
(* C12 - one call at a time                                                *)
(***************************************************************************)
\* C12: at no time does a run have more than one remote call outstanding:
\* a call is sent only when no call is awaiting its answer.
C12_OneCallOutstanding ==
    /\ Len(inflight) <= 1
    /\ inflight # <<>> => (~Finished /\ AtFetch(run) /\ inflight[1] = Outgoing(run))

\* the creation call of the second item of a carousel awaits its answer
C12_Witness ==
    /\ Len(inflight) = 1 /\ inflight[1].op = "POST media"
    /\ Len(NonNull) = 3 /\ Len(ItemCreations) = 1

(***************************************************************************)
(* C13 - polling is bounded                                                *)
(***************************************************************************)
\* the containers `run` has queried
\* C13: no container is queried more than maxAttempts (30) times; a run on N
\* non-null URLs has issued at most N + 30*N + 1 + 30 + 1 remote calls; and a
\* run that has not ended can take a step (every call being answered, it
\* ends with a post id or an error).
C13_PollingBounded ==
    /\ LET queries == StatusQueries
       IN \A c \in {queries[j].container : j \in 1..Len(queries)} :
             Len(SelectSeq(queries, LAMBDA e : e.container = c)) <= maxAttempts
    /\ Len(Calls) + Len(inflight)
          <= Len(NonNull) + maxAttempts * Len(NonNull) + 1 + maxAttempts + 1
    /\ Finished \/ ENABLED Next
    /\ Finished => run.outcome.status \in {"returned", "thrown"}

\* the carousel parent used up its whole budget after every child finished
\* at its last allowed check
C13_Witness ==
    /\ Finished /\ Len(NonNull) = MaxUrls
    /\ Len(ParentCreations) = 1
    /\ Len(QueriesOf(run.carouselId)) = maxAttempts
    /\ Len(Calls) = Len(NonNull) + MaxFinishPolls * Len(NonNull) + 1 + maxAttempts

(***************************************************************************)
(* C14 - where the caption goes                                            *)
(***************************************************************************)
WithCaption == SelectSeq(Creations, LAMBDA e : e.caption # Undefined)

\* C14: in a run on N >= 2 non-null URLs every item creation call carries
\* an image_url and is_carousel_item = true and no caption; the only
\* creation call that carries the caption is the carousel-parent creation
\* call, so a run that got as far as creating the parent has issued exactly
\* one creation call with the caption (and a run that ended before, none).
C14_CaptionOnParentOnly ==
    (~run.dryRun /\ Len(NonNull) >= 2) =>
        LET creations == Creations
            captioned == WithCaption
        IN /\ \A j \in 1..Len(creations) :
                 \/ /\ creations[j].is_carousel_item = "true"
                    /\ creations[j].image_url # Undefined
                    /\ creations[j].caption = Undefined
                    /\ creations[j].media_type = Undefined
                 \/ /\ creations[j].media_type = "CAROUSEL"
                    /\ creations[j].is_carousel_item = Undefined
                    /\ creations[j].caption = run.caption
           /\ captioned = ParentCreations
           /\ Len(captioned) <= 1
           /\ run.outcome.status = "returned" => Len(captioned) = 1

C14_Witness ==
    /\ ~run.dryRun /\ Len(NonNull) = 3
    /\ run.outcome.status = "returned"
    /\ Len(ItemCreations) = 3 /\ Len(WithCaption) = 1

(***************************************************************************)
(* C15 - the failures can be told apart                                    *)
(***************************************************************************)
\* the three shapes of message: `Container <id> timed out after <s> seconds`,
\* `Container <id> failed: <status>`, `Failed to <do>: <platform message>`
IsTimeoutKind(e) == Len(e) = 5 /\ e[1] = "Container " /\ e[3] = " timed out after "
IsFailedKind(e) == Len(e) = 4 /\ e[1] = "Container " /\ e[3] = " failed: "
IsRemoteApiKind(e) ==
    /\ Len(e) = 2
    /\ e[1] \in {"Failed to create media container: ", "Failed to create image post: ",
                 "Failed to create carousel: ", "Failed to publish: "}
KindsOf(e) ==
    {n \in 1..3 : \/ n = 1 /\ IsTimeoutKind(e)
                  \/ n = 2 /\ IsFailedKind(e)
                  \/ n = 3 /\ IsRemoteApiKind(e)}

C16_OnlyFinishedAdvances ==
    /\ (StatusJustQueried /\ last.ok /\ last.error = Undefined
            /\ last.status_code \in {"PENDING", "IN_PROGRESS"}) =>
          /\ run.outcome = Pending
          /\ LastEffect.container \notin platform.finished
    /\ \A j \in 1..(Len(run.log) - 1) :
          run.log[j].op = "GET status" =>
              \/ /\ run.log[j + 1] = Sleep(PollDelayMs)
                 /\ j + 2 <= Len(run.log) =>
                       run.log[j + 2] = GetStatus(run.log[j].container)
              \/ /\ run.log[j].container \in platform.finished
                 /\ run.log[j + 1].op # "sleep"

\* a container answered PENDING at its second check
C16_Witness ==
    /\ StatusJustQueried /\ last.ok /\ last.status_code = "PENDING"
    /\ Len(QueriesOf(LastQueried)) = 2
    /\ Len(StatusQueries) >= 3

(***************************************************************************)
(* C17 - validateToken                                                     *)
(***************************************************************************)
\* C17: whatever the identity probe yields (a body with or without error
\* object, a fetch that rejects, a body that does not parse), validateToken
\* returns a value {valid, ...} and throws nothing, so that no script ends
\* with an error escaped from it; and it has issued one GET of /me only.
C17_ValidateTokenNeverThrows ==
    drv.step = "validateToken" =>
        /\ validateToken(last).status = "returned"
        /\ drv.error = <<>>
        /\ drv.log = <<GetMe("validateToken")>>

(***************************************************************************)
(* C18 - getInstagramAccountId                                             *)
(***************************************************************************)
\* the script has just awaited getInstagramAccountId, which sent the probe
\* and got the body `last`
AccountProbed ==
    drv.step = "getInstagramAccountId" /\ drv.config.accountId = Undefined /\ last.ok

\* C18: when the probe of getInstagramAccountId is answered without error
\* object and without id, it throws the account-not-found error; when it
\* is answered with an error object, it throws `Instagram API error:
\* <message>`; when it is answered with an id, it returns that id.
C18_AccountIdOutcomes ==
    AccountProbed =>
        /\ (last.error = Undefined /\ last.id = Undefined) =>
              (drv.exit = <<1>> /\ drv.error = AccountNotFound
                  /\ drv.igAccountId = Undefined)
        /\ last.error # Undefined =>
              (drv.exit = <<1>> /\ drv.error = <<"Instagram API error: ", last.error>>
                  /\ drv.igAccountId = Undefined)
        /\ (last.error = Undefined /\ last.id # Undefined) =>
              (drv.igAccountId = last.id /\ drv.error = <<>> /\ drv.exit # <<1>>)

\* a credential that is valid (it has a username) but has no account id
C18_Witness ==
    /\ AccountProbed /\ last.error = Undefined /\ last.id = Undefined
    /\ last.username # Undefined
    /\ drv.error = AccountNotFound

(***************************************************************************)
(* C20 - a failed post does not stop the batch                             *)
(***************************************************************************)
\* events of drv.log
Invoked == SelectSeq(drv.log, LAMBDA e : e.op = "postCarousel")
Settlements == SelectSeq(drv.log, LAMBDA e : e.op = "settled")
Failures == SelectSeq(Settlements, LAMBDA e : e.outcome.status = "thrown")
\* the post p of the batch has images and is not deselected by --post-index
Attemptable(p) ==
    /\ drv.posts[p] > 0
    /\ drv.script = "post-carousels" =>
          (drv.onlyPostIndex = NoIndex \/ drv.onlyPostIndex = p)
\* the posts of the batch the loop has passed, the one at hand included once
\* postCarousel was called for it
Passed ==
    SubSeq(drv.batch, 1,
           IF drv.pc \in {"posting", "cooldown"} THEN drv.i + 1 ELSE drv.i)

\* C20: in index and in post-carousels an error thrown by postCarousel
\* never ends the script: it exits with code 1 in no state in which a
\* postCarousel has failed, and postCarousel has been invoked exactly once,
\* in order, for every post the loop has passed that has images and is
\* selected - for all of them once the script has ended - however many of
\* the earlier invocations failed.
C20_FailureIsPerPost ==
    (drv.script \in {"index", "post-carousels"} /\ drv.pc \in {"loop", "post", "posting", "cooldown", "done"}
        /\ drv.batch # <<>>) =>
        /\ Len(Failures) > 0 => (drv.exit # <<1>> /\ drv.error = <<>>)
        /\ drv.pc # "done" =>
              [j \in 1..Len(Invoked) |-> Invoked[j].post]
                  = SelectSeq(Passed, Attemptable)
        /\ (drv.pc = "done" /\ drv.exit = <<0>>) =>
              [j \in 1..Len(Invoked) |-> Invoked[j].post]
                  = SelectSeq(drv.batch, Attemptable)

\* every post of a full batch failed, and every one was attempted
C20_Witness ==
    /\ drv.pc = "done" /\ drv.exit = <<0>> /\ ~drv.dryRun
    /\ Len(drv.batch) = MaxPosts
    /\ Len(Invoked) = MaxPosts /\ Len(Failures) = MaxPosts

(***************************************************************************)
(* C24 - what is published, what is returned                               *)
(***************************************************************************)
\* the objects the platform created for carousel-parent creation calls
ParentObjects ==
    SelectSeq(platform.objects, LAMBDA o : o.by.op = "POST media" /\ o.by.media_type = "CAROUSEL")

\* C24: in a run on N >= 2 non-null URLs every publish call carries as
\* creation_id the id the platform returned for the carousel-parent creation
\* call, which is none of the child container ids, and a run that returns
\* returns the id the platform returned for its publish call.
C24_PublishesParentReturnsPostId ==
    (~run.dryRun /\ Len(NonNull) >= 2) =>
        /\ \A j \in 1..Len(Publishes) :
              /\ Len(ParentObjects) = 1
              /\ Publishes[j].creation_id = ParentObjects[1].id
              /\ \A c \in 1..Len(ItemIds) : Publishes[j].creation_id # ItemIds[c]
        /\ (Finished /\ run.outcome.status = "returned") =>
              /\ Len(Publishes) = 1 /\ Len(Posts) = 1
              /\ Posts[1].by = Publishes[1]
              /\ run.outcome.value = Posts[1].id

\* a carousel of two items published after its parent stalled once
C24_Witness ==
    /\ ~run.dryRun /\ Len(NonNull) = 2
    /\ Finished /\ run.outcome.status = "returned"
    /\ Len(QueriesOf(run.carouselId)) = 2

(***************************************************************************)
(* C25 - an item the platform refuses                                      *)
(***************************************************************************)
\* the latest step was an item creation call answered with an error object
ItemRefused ==
    /\ run.log # <<>>
    /\ last.ok /\ last.error # Undefined
    /\ LastEffect.op = "POST media" /\ LastEffect.is_carousel_item = "true"

\* C25: when the creation call of the k-th item is answered with an error
\* object, the run has ended with `Failed to create media container: ...`
\* having issued exactly k item creation calls and no other call (no status
\* query, no parent creation, no publish), it issues none afterwards, and
\* the k-1 containers created before are left as they are, none finished,
\* none published.
C25_ItemErrorAbandons ==
    ItemRefused =>
        LET k == Len(ItemCreations)
        IN /\ Finished
           /\ run.outcome = Thrown(<<"Failed to create media container: ", last.error>>)
           /\ k \in 1..Len(NonNull) /\ LastEffect.image_url = NonNull[k]
           /\ Calls = ItemCreations
           /\ Len(platform.objects) = k - 1
           /\ ItemIds = run.containerIds
           /\ platform.finished = {}
           /\ inflight = <<>>
           /\ ~ENABLED Next

\* the third of three items is refused
C25_Witness ==
    /\ ItemRefused /\ Len(NonNull) = 3 /\ Len(ItemCreations) = 3
    /\ Len(platform.objects) = 2

(***************************************************************************)
(* C26 - children are polled in creation order                             *)
(***************************************************************************)
\* C26: in a run on N >= 2 non-null URLs a status query is issued only
\* after all N item creation calls (the first N calls of the run); the
\* status queries go through the children in creation order, each child
\* being queried again and again until the next is queried, and child k+1
\* is queried only once child k has reported FINISHED; so when child k
\* reports ERROR or times out, the children after it are never queried.
C26_ChildrenPolledInOrder ==
    (~run.dryRun /\ Len(NonNull) >= 2) =>
        LET N == Len(NonNull)
            calls == Calls
            queries == StatusQueries
            ids == ItemIds
            parents == ParentObjects
            polled == ids \o [j \in 1..Len(parents) |-> parents[j].id]
            queried == {queries[j].container : j \in 1..Len(queries)}
        IN /\ queries # <<>> => (Len(ItemCreations) = N /\ Len(ids) = N)
           /\ \A j \in 1..Len(calls) : calls[j].op = "GET status" => j > N
           /\ queries # <<>> => queries[1].container = ids[1]
           /\ \A j \in 1..(Len(queries) - 1) :
                 \/ queries[j + 1].container = queries[j].container
                 \/ \E k \in 1..(Len(polled) - 1) :
                       /\ queries[j].container = polled[k]
                       /\ queries[j + 1].container = polled[k + 1]
                       /\ polled[k] \in platform.finished
           /\ \A k \in 1..(Len(ids) - 1) :
                 ids[k + 1] \in queried => ids[k] \in platform.finished
           /\ (Finished /\ run.outcome.status = "thrown" /\ queries # <<>>) =>
                 \A k \in 1..Len(ids) :
                    queries[Len(queries)].container = ids[k] =>
                       \A m \in (k + 1)..Len(ids) : ids[m] \notin queried

\* the second of three children reports ERROR at its second check
C26_Witness ==
    /\ ~run.dryRun /\ Len(NonNull) = 3 /\ Len(ItemIds) = 3
    /\ Finished /\ StatusJustQueried /\ last.ok /\ last.status_code = "ERROR"
    /\ LastQueried = ItemIds[2] /\ Len(QueriesOf(ItemIds[2])) = 2
    /\ QueriesOf(ItemIds[3]) = <<>>

(***************************************************************************)
(* C27 - the pacing delay                                                  *)
(***************************************************************************)
IsItemCreation(e) == e.op = "POST media" /\ e.is_carousel_item = "true"
PaceSleeps == SelectSeq(run.log, LAMBDA e : e = Sleep(PaceDelayMs))

\* C27: in a run on N >= 2 non-null URLs the effect that follows an item
\* creation call is one sleep of PaceDelayMs (1000 ms, whatever the answers
\* were), and what follows that sleep after any item but the last is the
\* creation call of the next URL; no URL gets a second creation call, and
\* the run has slept the pacing delay at most once per item created.
C27_FixedPacing ==
    (~run.dryRun /\ Len(NonNull) >= 2) =>
        LET urls == NonNull
            log == run.log
            items == ItemCreations
            paces == Len(PaceSleeps)
        IN /\ \A j \in 1..Len(log) :
                 IsItemCreation(log[j]) =>
                    /\ j + 1 <= Len(log) => log[j + 1] = Sleep(PaceDelayMs)
                    /\ (j + 2 <= Len(log) /\ log[j].image_url # urls[Len(urls)]) =>
                          /\ IsItemCreation(log[j + 2])
                          /\ \E k \in 1..(Len(urls) - 1) :
                                /\ log[j].image_url = urls[k]
                                /\ log[j + 2].image_url = urls[k + 1]
           /\ \A j, k \in 1..Len(items) :
                 j # k => items[j].image_url # items[k].image_url
           /\ paces <= Len(items)
           /\ paces = Len(run.containerIds) \/ paces + 1 = Len(run.containerIds)

\* three items created, two pacing delays between them
C27_Witness ==
    /\ ~run.dryRun /\ Len(NonNull) = 3 /\ Len(run.log) = 5
    /\ Len(ItemCreations) = 3 /\ Len(PaceSleeps) = 2

(***************************************************************************)
(* C28 - queries and delays of one wait                                    *)
(***************************************************************************)
\* the number of status queries for c that were followed by the poll delay
PollDelaysOf(c) ==
    Cardinality({j \in 1..(Len(run.log) - 1) :
                    run.log[j] = GetStatus(c) /\ run.log[j + 1] = Sleep(PollDelayMs)})

\* C28: a run ended by the timeout error of a container has issued exactly
\* maxAttempts status queries for it, each followed by one delay of
\* PollDelayMs, the last included, maxAttempts * PollDelayMs in all; a wait
\* that ends with FINISHED or ERROR at its j-th query has issued j queries
\* and slept j - 1 delays.
C28_QueriesAndDelays ==
    /\ TimedOut =>
          LET c == run.outcome.error[2]
          IN /\ Len(QueriesOf(c)) = maxAttempts
             /\ PollDelaysOf(c) = maxAttempts
             /\ LastEffect = Sleep(PollDelayMs)
             /\ run.log[Len(run.log) - 1] = GetStatus(c)
             /\ PollDelaysOf(c) * PollDelayMs = 60000
    /\ (StatusJustQueried /\ last.ok /\ last.error = Undefined
            /\ last.status_code \in {"FINISHED", "ERROR"}) =>
          /\ Len(QueriesOf(LastQueried)) <= maxAttempts
          /\ PollDelaysOf(LastQueried) = Len(QueriesOf(LastQueried)) - 1

\* the second child timed out after the first finished at its second query
C28_Witness ==
    /\ TimedOut /\ Len(ItemIds) = 2
    /\ run.outcome.error[2] = ItemIds[2]
    /\ Len(QueriesOf(ItemIds[1])) = 2 /\ PollDelaysOf(ItemIds[1]) = 1

(***************************************************************************)
(* C29 - EXPIRED and other statuses                                        *)
(***************************************************************************)
\* C29: a status query answered with a status_code other than FINISHED and
\* ERROR (EXPIRED, or a body without status_code) leaves the run polling
\* the same container: it has not failed and the container does not count
\* as finished; the processing-failed error is thrown only at a status
\* ERROR; and a run that ends after a poll delay ends with the timeout
\* error of the container it polled, which it has not published.
C29_OtherStatusKeepsPolling ==
    /\ (StatusJustQueried /\ last.ok /\ last.status_code \notin {"FINISHED", "ERROR"}) =>
          /\ run.outcome = Pending
          /\ IsWaiting(run) /\ run.wstep = "sleep" /\ run.waitId = LastQueried
          /\ LastQueried \notin platform.finished
    /\ (Finished /\ run.outcome.status = "thrown" /\ IsFailedKind(run.outcome.error)) =>
          ErrorStatusAnswered
    /\ (Finished /\ run.log # <<>> /\ LastEffect = Sleep(PollDelayMs)) =>
          /\ run.outcome = Thrown(TimeoutError(LastQueried))
          /\ Len(QueriesOf(LastQueried)) = maxAttempts
          /\ \A j \in 1..Len(Publishes) : Publishes[j].creation_id # LastQueried

\* a container answers EXPIRED at its last allowed query
C29_Witness ==
    /\ StatusJustQueried /\ last.ok /\ last.status_code = "EXPIRED"
    /\ Len(QueriesOf(LastQueried)) = maxAttempts
    /\ run.outcome = Pending

Paced ==
    SelectSeq(drv.log, LAMBDA e : e.op \in {"postCarousel", "settled"}
                                     \/ e = Sleep(spacingMs))

\* C21: in index and post-carousels run without --dry-run and without
\* --post-index, every invocation of postCarousel but the first comes after
\* a cooldown of spacingMs that itself came after the previous invocation
\* had settled (returned or thrown); an invocation is followed by its own
\* settlement before anything else, so no two runs of postCarousel overlap.
C21_OneAtATimeWithCooldown ==
    (drv.script \in {"index", "post-carousels"} /\ ~drv.dryRun
        /\ drv.onlyPostIndex = NoIndex) =>
        /\ \A j \in 1..Len(Paced) :
              Paced[j].op = "postCarousel" =>
                 /\ j = 1 \/ (j >= 3 /\ Paced[j - 1] = Sleep(spacingMs)
                                 /\ Paced[j - 2].op = "settled")
                 /\ j < Len(Paced) =>
                       (Paced[j + 1].op = "settled" /\ Paced[j + 1].post = Paced[j].post)
        /\ Len(Invoked) - Len(Settlements) \in {0, 1}
        /\ Len(Invoked) > Len(Settlements) => drv.pc = "posting"

\* a full batch published with a cooldown after every post but the last,
\* the first post having failed
C21_Witness ==
    /\ drv.script \in {"index", "post-carousels"} /\ ~drv.dryRun
    /\ drv.onlyPostIndex = NoIndex
    /\ drv.pc = "done" /\ Len(Invoked) = MaxPosts
    /\ Settlements[1].outcome.status = "thrown"
    /\ Len(SelectSeq(drv.log, LAMBDA e : e = Sleep(spacingMs))) = MaxPosts - 1

(***************************************************************************)
(* C23 - the dry run                                                       *)
(***************************************************************************)
\* C23: index and post-carousels run with --dry-run send no /me probe (no
\* token validation, no account lookup) and no upload; their only effects
\* are invocations of postCarousel with dryRun = true on arrays that hold
\* one non-null fake URL per image of the post, each of which returns
\* DRY_RUN_SUCCESS without a Graph API call; and a script that has run to
\* its end has invoked postCarousel for every post that has images (the
\* selected one under --post-index).
C23_DryRunSimulatesEverything ==
    (drv.script \in {"index", "post-carousels"} /\ drv.dryRun) =>
        /\ \A j \in 1..Len(drv.log) : drv.log[j].op \in {"postCarousel", "settled"}
        /\ \A j \in 1..Len(Invoked) :
              /\ Invoked[j].dryRun
              /\ Len(Invoked[j].imageUrls) = drv.posts[Invoked[j].post]
              /\ \A n \in 1..Len(Invoked[j].imageUrls) :
                    /\ Invoked[j].imageUrls[n] # NULL
                    /\ Invoked[j].imageUrls[n] = FakeUrl(drv.script, Invoked[j].post, n)
        /\ \A j \in 1..Len(Settlements) :
              Settlements[j].outcome = Returned("DRY_RUN_SUCCESS")
        /\ (drv.script = "post-carousels" /\ drv.pc \in {"loop", "post", "posting", "done"}) =>
              \A p \in 1..Len(drv.posts) :
                 /\ Len(drv.uploadedByPost[p]) = drv.posts[p]
                 /\ \A n \in 1..drv.posts[p] : drv.uploadedByPost[p][n] # NULL
        /\ (drv.pc = "done" /\ drv.exit = <<0>>) =>
              [j \in 1..Len(Invoked) |-> Invoked[j].post]
                  = SelectSeq(drv.batch, Attemptable)

\* post-carousels has simulated a full batch with a bad configuration
C23_Witness ==
    /\ drv.script = "post-carousels" /\ drv.dryRun
    /\ drv.pc = "done" /\ drv.exit = <<0>>
    /\ Len(Invoked) = MaxPosts /\ Len(Settlements) = MaxPosts
    /\ drv.config.accessToken = Undefined

(***************************************************************************)
(* C30 - a bad configuration                                               *)
(***************************************************************************)
\* C30: when validateConfig reports a missing access token or a missing
\* ImgBB key, the script (index, post-carousels or test-token) does nothing
\* but stop: it sends no probe, uploads nothing, invokes postCarousel for
\* no post, and ends with exit code 1 at its first step.
C30_StopsOnBadConfig ==
    ~validateConfig(drv.config) =>
        /\ drv.log = <<>>
        /\ drv.pc \in {"start", "done"}
        /\ drv.pc = "done" => drv.exit = <<1>>

(***************************************************************************)
(* C31 - the cooldown only between posts                                   *)
(***************************************************************************)
Cooldowns == SelectSeq(drv.log, LAMBDA e : e = Sleep(spacingMs))

\* C31: index and post-carousels wait the cooldown of spacingMs only between
\* posts: never in a dry run, never when one post was selected with
\* --post-index, and never after the last invocation of postCarousel of the
\* batch (a script that has ended did not end on a cooldown, whichever posts
\* have images).
C31_CooldownOnlyBetweenPosts ==
    drv.script \in {"index", "post-carousels"} =>
        /\ drv.dryRun => Cooldowns = <<>>
        /\ drv.onlyPostIndex # NoIndex => Cooldowns = <<>>
        /\ (drv.pc = "done" /\ Paced # <<>>) => Paced[Len(Paced)] # Sleep(spacingMs)

(***************************************************************************)
(* C33 - a configured account id                                           *)
(***************************************************************************)
AccountProbes == SelectSeq(drv.log, LAMBDA e : e = GetMe("getInstagramAccountId"))

\* C33: when an account id is configured, getInstagramAccountId sends no
\* probe (the script's log never holds one, and the step awaited no
\* response), and the script that has just awaited it holds the configured
\* id and has not failed.
C33_ConfiguredIdNeedsNoCall ==
    drv.config.accountId # Undefined =>
        /\ AccountProbes = <<>>
        /\ drv.step = "getInstagramAccountId" =>
              /\ last = NoMe
              /\ drv.igAccountId = drv.config.accountId
              /\ drv.error = <<>> /\ drv.exit # <<1>>

\* test-token ends well on the configured id
C33_Witness ==
    /\ drv.script = "test-token" /\ drv.config.accountId = Acct
    /\ drv.step = "getInstagramAccountId"
    /\ drv.igAccountId = Acct /\ drv.exit = <<0>>

(***************************************************************************)
(* C32 - uploads keep their positions                                      *)
(***************************************************************************)
\* C32: in index and post-carousels run without --dry-run, the array handed
\* to postCarousel for a post has one position per image of the post;
\* position s is null exactly when upload s did not succeed (it failed, or
\* the ImgBB key is unset) and holds the URL returned for image s otherwise;
\* with a key, every image was uploaded once, in order, whatever failed
\* before it; and post-carousels hands over what uploadAllSlides stored.
C32_UploadsKeepPositions ==
    (drv.script \in {"index", "post-carousels"} /\ ~drv.dryRun) =>
        LET log == drv.log
            succeeded(p, n) ==
                \E j \in 1..(Len(log) - 1) :
                   log[j] = Upload(p, n) /\ log[j + 1] = Sleep(UploadDelayMs)
            attempted(p) == SelectSeq(log, LAMBDA e : e.op = "POST imgbb" /\ e.post = p)
        IN /\ \A j \in 1..Len(log) :
                 log[j].op = "postCarousel" =>
                    LET p == log[j].post
                        urls == log[j].imageUrls
                    IN /\ Len(urls) = drv.posts[p]
                       /\ \A n \in 1..Len(urls) :
                             /\ urls[n] = NULL <=> ~succeeded(p, n)
                             /\ urls[n] # NULL => urls[n] = UploadedUrl(p, n)
                       /\ drv.config.imgbbKey # Undefined =>
                             attempted(p) = [n \in 1..drv.posts[p] |-> Upload(p, n)]
                       /\ drv.script = "post-carousels" => urls = drv.uploadedByPost[p]
           /\ (drv.script = "post-carousels"
                  /\ (drv.pc \in {"loop", "post", "posting", "cooldown"} \/ drv.exit = <<0>>)) =>
                 \A p \in 1..Len(drv.posts) : Len(drv.uploadedByPost[p]) = drv.posts[p]

\* the first upload of a post failed and the second URL kept its position
C32_Witness ==
    /\ drv.script \in {"index", "post-carousels"} /\ ~drv.dryRun
    /\ Invoked # <<>>
    /\ Invoked[Len(Invoked)].imageUrls
          = <<NULL, UploadedUrl(Invoked[Len(Invoked)].post, 2)>>

(***************************************************************************)
(* The content generator (generate-content.js).  In SpecGen `drv` is the   *)
(* process running the script: every request to a provider is a step that  *)
(* draws the provider's answer, kept in `last`.  drv.log holds the         *)
(* requests of the call of generateWithFallback under way (or of the       *)
(* latest one), drv.skips the providers that call skipped, drv.outputs     *)
(* what each call of generateWithFallback returned or threw, and drv.saved *)
(* the content written to content/<date>.json.                             *)
(***************************************************************************)
\* the number of posts isExpectedContentShape asks for
ExpectedPosts == 5
\* the least number of lines of slide2 and slide3
MinLines == 2
\* slide2.lines / slide3.lines that is not an array
NotArray == -1
\* an object without totalPosts
NoCount == -1
TargetDate == "2026-02-25"

\* a post of the generated JSON, by what isExpectedContentShape looks at:
\* typeof id, topic, caption and slideContent, whether slide1 has a
\* headline and a subtitle, and the lengths of slide2.lines and slide3.lines
GoodPost(n) ==
    [id |-> n, idType |-> "number", topic |-> "string", caption |-> "string",
     slideContent |-> "object", headline |-> TRUE, subtitle |-> TRUE,
     lines2 |-> 4, lines3 |-> 4]
Flaws ==
    {"id", "topic", "caption", "slideContent", "headline", "subtitle", "lines2", "lines3"}
Flawed(p, flaw) ==
    CASE flaw = "id" -> [p EXCEPT !.idType = "string"]
      [] flaw = "topic" -> [p EXCEPT !.topic = Undefined]
      [] flaw = "caption" -> [p EXCEPT !.caption = Undefined]
      [] flaw = "slideContent" ->
            [p EXCEPT !.slideContent = Undefined, !.headline = FALSE,
                      !.subtitle = FALSE, !.lines2 = NotArray, !.lines3 = NotArray]
      [] flaw = "headline" -> [p EXCEPT !.headline = FALSE]
      [] flaw = "subtitle" -> [p EXCEPT !.subtitle = FALSE]
      [] flaw = "lines2" -> [p EXCEPT !.lines2 = 1]
      [] flaw = "lines3" -> [p EXCEPT !.lines3 = NotArray]
GoodPosts(n) == [k \in 1..n |-> GoodPost(k)]
PostArrays ==
    {GoodPosts(n) : n \in {ExpectedPosts - 1, ExpectedPosts, ExpectedPosts + 1}}
        \cup {[GoodPosts(ExpectedPosts) EXCEPT ![3] = Flawed(@, flaw)] : flaw \in Flaws}

\* a JSON value: null, an array of posts, or an object whose `posts` is
\* absent, an array or an object keyed by numbers
JsonNull ==
    [kind |-> "null", date |-> Undefined, instagramHandle |-> Undefined,
     totalPosts |-> NoCount, postsKind |-> "absent", posts |-> <<>>]
JsonArray(items) == [JsonNull EXCEPT !.kind = "array", !.posts = items]
JsonObject(date, postsKind, items) ==
    [JsonNull EXCEPT !.kind = "object", !.date = date, !.postsKind = postsKind,
                     !.posts = items]
Values ==
    {JsonNull, JsonObject(TargetDate, "absent", <<>>),
     JsonArray(GoodPosts(ExpectedPosts)), JsonArray(GoodPosts(ExpectedPosts - 1)),
     JsonObject(Undefined, "object", GoodPosts(ExpectedPosts))}
        \cup {JsonObject(TargetDate, "array", items) : items \in PostArrays}

\* the text a provider returns: a JSON value written out, possibly inside a
\* markdown code fence, or prose, or no content at all
Prose == [JsonNull EXCEPT !.kind = "prose"]
NoContent == [JsonNull EXCEPT !.kind = "undefined"]
Text(fenced, body) == [fenced |-> fenced, body |-> body]
Texts ==
    {Text(FALSE, v) : v \in Values}
        \cup {Text(FALSE, Prose), Text(FALSE, NoContent),
              Text(TRUE, JsonObject(TargetDate, "array", GoodPosts(ExpectedPosts)))}

\* JSON.parse(text): throws on anything but a bare JSON value
JSONparse(text) ==
    IF text.fenced \/ text.body.kind \in {"prose", "undefined"}
    THEN [ok |-> FALSE, value |-> JsonNull]
    ELSE [ok |-> TRUE, value |-> text.body]

\* process.env of the script (GEMINI_MODEL is left unset)
Envs ==
    [GROQ_API_KEY : {Undefined, " ", "key"}, GROQ_MODEL : {Undefined, "custom"},
     OPENROUTER_API_KEY : {Undefined, "key"}, TOGETHER_API_KEY : {Undefined, "key"},
     DISABLE_GEMINI : {Undefined, "TRUE"},
     GEMINI_API_KEY : {Undefined, "key"}, GEMINI_MODEL : {Undefined}]

\* typeof v === "string" ? v.trim() : ""
envTrim(v) == IF v = Undefined \/ v = " " THEN "" ELSE v
toLowerCase(v) == IF v = "TRUE" THEN "true" ELSE v
envBool(v, defaultValue) ==
    IF toLowerCase(envTrim(v)) = "" THEN defaultValue
    ELSE toLowerCase(envTrim(v)) \in {"1", "true", "yes", "y", "on"}

Providers == <<"groq", "openrouter", "together", "gemini">>

\* the model names a provider tries, in order
modelCandidates(env, provider) ==
    CASE provider = "groq" ->
            SelectSeq(<<envTrim(env.GROQ_MODEL), "llama-3.3-70b-versatile",
                        "llama-3.1-70b-versatile", "llama-3.1-8b-instant">>,
                      LAMBDA name : name # "")
      [] provider = "openrouter" -> <<"meta-llama/llama-3-8b-instruct">>
      [] provider = "together" -> <<"meta-llama/Llama-3.3-70B-Instruct-Turbo">>
      [] provider = "gemini" ->
            SelectSeq(<<envTrim(env.GEMINI_MODEL), "gemini-2.0-flash", "gemini-2.0-pro",
                        "gemini-1.5-pro-latest", "gemini-1.5-flash-latest",
                        "gemini-1.5-pro", "gemini-1.5-flash">>,
                      LAMBDA name : name # "")

\* a provider that no key is set for is never asked
skipped_Never(env, provider) == FALSE

\* the provider throws `SKIP: ...` before any request
skipped(env, provider) ==
    CASE provider = "groq" -> envTrim(env.GROQ_API_KEY) = ""
      [] provider = "openrouter" -> envTrim(env.OPENROUTER_API_KEY) = ""
      [] provider = "together" -> envTrim(env.TOGETHER_API_KEY) = ""
      [] provider = "gemini" ->
            envBool(env.DISABLE_GEMINI, FALSE) \/ envTrim(env.GEMINI_API_KEY) = ""

\* what a request yields: the text of the completion, or an error with the
\* code and message of the provider
Completion(text) == [ok |-> TRUE, text |-> <<text>>, code |-> Undefined, message |-> Undefined]
Refusal(code, message) == [ok |-> FALSE, text |-> <<>>, code |-> code, message |-> message]
NoResult == Refusal(Undefined, Undefined)
Refusals(provider) ==
    CASE provider = "groq" ->
            {Refusal("model_decommissioned", "The model has been decommissioned"),
             Refusal("rate_limit_exceeded", "Rate limit reached")}
      [] provider = "gemini" ->
            {Refusal(Undefined, "[404 Not Found] models/x is not found"),
             Refusal(Undefined, "[429 Too Many Requests] quota exceeded")}
      [] OTHER -> {Refusal(Undefined, "Request failed with status code 429")}
Results(provider) == {Completion(text) : text \in Texts} \cup Refusals(provider)

\* the catch inside the loops over the model candidates of Groq and Gemini:
\* TRUE when the next candidate is tried
nextCandidate(provider, result) ==
    CASE provider = "groq" ->
            \/ result.code = "model_decommissioned"
            \/ result.message \in {"The model has been decommissioned"}
      [] provider = "gemini" ->
            result.message \in {"[404 Not Found] models/x is not found"}
      [] OTHER -> FALSE

Ask(provider, model, prompt, result) ==
    [op |-> "POST", provider |-> provider, model |-> model, prompt |-> prompt,
     result |-> result]
Gave(text) == [status |-> "returned", text |-> <<text>>, error |-> <<>>]
Threw(parts) == [status |-> "thrown", text |-> <<>>, error |-> parts]

NewGenerator(env) ==
    [script |-> "generate-content", env |-> env, targetDate |-> TargetDate,
     pc |-> "start", step |-> "none", call |-> 0, prompt |-> Undefined,
     i |-> 0, m |-> 0, skips |-> <<>>, log |-> <<>>, outputs |-> <<>>,
     saved |-> <<>>, exit |-> <<>>, error |-> <<>>]

\* isExpectedContentShape without the test of the number of posts
isExpectedContentShape_AnyLength(obj) ==
    /\ obj.kind = "object"
    /\ obj.postsKind = "array"
    /\ \A k \in 1..Len(obj.posts) :
          LET p == obj.posts[k]
          IN /\ p.idType = "number" /\ p.topic = "string" /\ p.caption = "string"
             /\ p.slideContent = "object"
             /\ p.headline /\ p.subtitle
             /\ p.lines2 # NotArray /\ p.lines2 >= MinLines
             /\ p.lines3 # NotArray /\ p.lines3 >= MinLines

isExpectedContentShape(obj) ==
    /\ obj.kind = "object"
    /\ obj.postsKind = "array" /\ Len(obj.posts) = ExpectedPosts
    /\ \A k \in 1..Len(obj.posts) :
          LET p == obj.posts[k]
          IN /\ p.idType = "number" /\ p.topic = "string" /\ p.caption = "string"
             /\ p.slideContent = "object"
             /\ p.headline /\ p.subtitle
             /\ p.lines2 # NotArray /\ p.lines2 >= MinLines
             /\ p.lines3 # NotArray /\ p.lines3 >= MinLines

normalizeMaybe(obj, targetDate) ==
    LET wrapped == IF obj.kind = "array"
                   THEN [JsonObject(targetDate, "array", obj.posts) EXCEPT
                            !.instagramHandle = "dailyainewsone",
                            !.totalPosts = Len(obj.posts)]
                   ELSE obj
        listed == IF wrapped.kind = "object" /\ wrapped.postsKind = "object"
                  THEN [wrapped EXCEPT !.postsKind = "array"]
                  ELSE wrapped
    IN IF listed.kind # "object" THEN listed
       ELSE [listed EXCEPT
                !.date = IF @ = Undefined THEN targetDate ELSE @,
                !.instagramHandle = IF @ = Undefined THEN "dailyainewsone" ELSE @,
                !.totalPosts = IF (@ = NoCount \/ @ = 0) /\ listed.postsKind = "array"
                               THEN Len(listed.posts) ELSE @]

\* fs.writeFileSync(outputPath, JSON.stringify(content)); generateContent
\* returns and the process ends
save(d, content) == Exit([d EXCEPT !.saved = <<content>>], 0)

\* generateWithFallback has thrown: generateContent exits with code 1, in
\* the first call from its own catch, in the repair call from the catch
\* around coerceToExpected
allFailed(d) ==
    Fatal([d EXCEPT !.outputs = Append(@, Threw(<<"All AI providers failed.">>))],
          <<"All AI providers failed.">>)

\* the loop over the providers from the i-th on, up to the first request
RECURSIVE tryFrom(_, _)
tryFrom(d, i) ==
    IF i > Len(Providers) THEN allFailed(d)
    ELSE IF skipped(d.env, Providers[i])
         THEN tryFrom([d EXCEPT !.skips = Append(@, Providers[i])], i + 1)
    ELSE [d EXCEPT !.pc = "request", !.i = i, !.m = 1]

generateWithFallback(d, prompt) ==
    tryFrom([d EXCEPT !.call = @ + 1, !.prompt = prompt, !.skips = <<>>, !.log = <<>>], 1)

\* a loop that gives up at the first provider that fails
providerFailed_GivesUp(d) == allFailed(d)

\* the catch of the loop over the providers for an error that is no skip
providerFailed(d) == tryFrom(d, d.i + 1)

\* coerceToExpected after the repair call has returned repairedText
repaired(d, repairedText) ==
    LET repairedObj == JSONparse(repairedText)
        repairedNorm == normalizeMaybe(repairedObj.value, d.targetDate)
    IN IF ~repairedObj.ok THEN Fatal(d, <<"Repair step returned non-JSON.">>)
       ELSE IF isExpectedContentShape(repairedNorm) THEN save(d, repairedNorm)
       ELSE Fatal(d, <<"Invalid JSON structure after repair. Top-level: ",
                       repairedNorm.kind>>)

\* coerceToExpected up to its await
coerceToExpected(d, parsedObj) ==
    LET normalized == normalizeMaybe(parsedObj, d.targetDate)
    IN IF isExpectedContentShape(normalized) THEN save(d, normalized)
       ELSE generateWithFallback(d, "REPAIR_PROMPT")

\* generateContent after the first call has returned responseText; the
\* catch of a failed JSON.parse reads responseText.substring, which throws
\* a TypeError out of generateContent when there is no text
parseResponse(d, responseText) ==
    LET parsed == JSONparse(responseText)
    IN IF parsed.ok THEN coerceToExpected(d, parsed.value)
       ELSE IF responseText.body.kind = "undefined"
            THEN Fatal(d, <<"TypeError">>)
       ELSE Fatal(d, <<"Failed to parse JSON.">>)

\* generateWithFallback returns the output of the provider
succeeded(d, text) ==
    LET q == [d EXCEPT !.outputs = Append(@, Gave(text))]
    IN IF d.call = 1 THEN parseResponse(q, text) ELSE repaired(q, text)

\* the request to the provider at hand is answered by result
answer(d, result) ==
    LET provider == Providers[d.i]
        models == modelCandidates(d.env, provider)
        q == Did(d, <<Ask(provider, models[d.m], d.prompt, result)>>)
    IN IF result.ok THEN succeeded(q, result.text[1])
       ELSE IF nextCandidate(provider, result) /\ d.m < Len(models)
            THEN [q EXCEPT !.m = @ + 1]
       ELSE providerFailed(q)

InitGen ==
    /\ drv \in {NewGenerator(env) : env \in Envs}
    /\ run = Idle /\ ref = Idle
    /\ nextId = 1
    /\ last = NoResult
    /\ platform = [objects |-> <<>>, finished |-> {}, unfinished |-> FALSE]
    /\ inflight = <<>>
    /\ prev = NoCall

\* a step of the generator that ends with the response `result`
Generator(name, d, result) ==
    /\ drv' = [d EXCEPT !.step = name]
    /\ last' = result
    /\ UNCHANGED <<run, ref, nextId, platform, inflight, prev>>

Asking(provider) ==
    drv.script = "generate-content" /\ drv.pc = "request" /\ Providers[drv.i] = provider

GenerateContent ==
    /\ drv.script = "generate-content" /\ drv.pc = "start"
    /\ Generator("generateContent", generateWithFallback(drv, "CONTENT_PROMPT"), NoResult)

Groq ==
    /\ Asking("groq")
    /\ \E result \in Results("groq") : Generator("groq", answer(drv, result), result)

OpenRouter ==
    /\ Asking("openrouter")
    /\ \E result \in Results("openrouter") :
          Generator("openrouter", answer(drv, result), result)

Together ==
    /\ Asking("together")
    /\ \E result \in Results("together") :
          Generator("together", answer(drv, result), result)

Gemini ==
    /\ Asking("gemini")
    /\ \E result \in Results("gemini") : Generator("gemini", answer(drv, result), result)

NextGen ==
    \/ GenerateContent
    \/ Groq
    \/ OpenRouter
    \/ Together
    \/ Gemini

SpecGen == InitGen /\ [][NextGen]_vars

(***************************************************************************)
(* Observations of the generator                                           *)
(***************************************************************************)
ProviderIndex(provider) == CHOOSE i \in 1..Len(Providers) : Providers[i] = provider
\* the requests the call under way (or the latest call) sent to a provider
AskedOf(provider) == SelectSeq(drv.log, LAMBDA e : e.provider = provider)
Skipped(provider) == \E k \in 1..Len(drv.skips) : drv.skips[k] = provider
\* the environment gives the provider nothing to work with
Unconfigured(provider) ==
    \/ provider = "groq" /\ drv.env.GROQ_API_KEY \in {Undefined, " "}
    \/ provider = "openrouter" /\ drv.env.OPENROUTER_API_KEY = Undefined
    \/ provider = "together" /\ drv.env.TOGETHER_API_KEY = Undefined
    \/ provider = "gemini"
          /\ (drv.env.GEMINI_API_KEY = Undefined \/ drv.env.DISABLE_GEMINI = "TRUE")
\* the latest call of generateWithFallback has returned or thrown
CallSettled == drv.call >= 1 /\ Len(drv.outputs) = drv.call

(***************************************************************************)
(* C34 - the order of the providers                                        *)
(***************************************************************************)
\* C34: a call of generateWithFallback sends its requests in the order
\* Groq, OpenRouter, Together, Gemini; a provider without key (or Gemini
\* when disabled) is skipped and never sent a request; a successful answer
\* is the last request of the call and its text is what the call returns;
\* and between two providers that were asked one after the other, and
\* before the provider being asked, every provider was skipped or has
\* failed, so a failure never keeps the next provider from being tried.
C34_FirstSuccessInFixedOrder ==
    (drv.script = "generate-content" /\ drv.call >= 1) =>
        LET log == drv.log
            rank(j) == ProviderIndex(log[j].provider)
        IN /\ \A j \in 1..(Len(log) - 1) : rank(j) <= rank(j + 1)
           /\ \A k \in 1..Len(Providers) :
                 Unconfigured(Providers[k]) => AskedOf(Providers[k]) = <<>>
           /\ \A k \in 1..Len(drv.skips) : Unconfigured(drv.skips[k])
           /\ \A j \in 1..Len(log) :
                 log[j].result.ok =>
                    /\ j = Len(log)
                    /\ CallSettled
                    /\ drv.outputs[drv.call] = Gave(log[j].result.text[1])
           /\ (CallSettled /\ drv.outputs[drv.call].status = "returned") =>
                 (log # <<>> /\ log[Len(log)].result.ok)
           /\ \A j \in 1..(Len(log) - 1) :
                 \A k \in (rank(j) + 1)..(rank(j + 1) - 1) : Unconfigured(Providers[k])
           /\ drv.pc = "request" =>
                 /\ ~Unconfigured(Providers[drv.i])
                 /\ \A k \in 1..(drv.i - 1) :
                       \/ Unconfigured(Providers[k])
                       \/ (AskedOf(Providers[k]) # <<>>
                              /\ \A j \in 1..Len(AskedOf(Providers[k])) :
                                    ~AskedOf(Providers[k])[j].result.ok)
                 /\ log # <<>> => rank(Len(log)) <= drv.i

\* Groq failed, OpenRouter was skipped, Together answered, Gemini was not
\* asked
C34_Witness ==
    /\ drv.script = "generate-content" /\ drv.call = 1 /\ CallSettled
    /\ drv.outputs[1].status = "returned"
    /\ AskedOf("groq") # <<>> /\ Skipped("openrouter")
    /\ Len(AskedOf("together")) = 1 /\ AskedOf("together")[1].result.ok
    /\ AskedOf("gemini") = <<>> /\ ~Unconfigured("gemini")

(***************************************************************************)
(* C35 - all providers failed                                              *)
(***************************************************************************)
\* C35: a call of generateWithFallback that has ended threw `All AI
\* providers failed.' exactly when every provider was skipped or was asked
\* and refused every request (and is not being asked still); no provider is taken up twice in a call: it
\* is skipped at most once, and its requests go through its model
\* candidates in order, one request per candidate.
C35_AllFailedIffNoneSucceeded ==
    (drv.script = "generate-content" /\ drv.call >= 1) =>
        LET failed(p) ==
                LET asked == AskedOf(p)
                IN /\ asked # <<>> /\ \A j \in 1..Len(asked) : ~asked[j].result.ok
                   /\ ~(drv.pc = "request" /\ Providers[drv.i] = p)
            everyOneOut == \A k \in 1..Len(Providers) :
                              Skipped(Providers[k]) \/ failed(Providers[k])
        IN /\ CallSettled =>
                 /\ drv.outputs[drv.call].status = "thrown" <=> everyOneOut
                 /\ drv.outputs[drv.call].status = "thrown" =>
                       drv.outputs[drv.call].error = <<"All AI providers failed.">>
           /\ ~CallSettled => ~everyOneOut
           /\ \A j, k \in 1..Len(drv.skips) : j # k => drv.skips[j] # drv.skips[k]
           /\ \A k \in 1..Len(Providers) :
                 LET asked == AskedOf(Providers[k])
                     models == modelCandidates(drv.env, Providers[k])
                 IN /\ Len(asked) <= Len(models)
                    /\ \A j \in 1..Len(asked) : asked[j].model = models[j]
                    /\ asked # <<>> => ~Skipped(Providers[k])
           /\ \A j \in 1..(Len(drv.log) - 1) :
                 ProviderIndex(drv.log[j].provider) <= ProviderIndex(drv.log[j + 1].provider)

\* Groq refused all its four model candidates, Together refused, the other
\* two were skipped
C35_Witness ==
    /\ drv.script = "generate-content" /\ drv.call = 1 /\ CallSettled
    /\ drv.outputs[1] = Threw(<<"All AI providers failed.">>)
    /\ Len(AskedOf("groq")) = 4 /\ Len(AskedOf("together")) = 1
    /\ drv.skips = <<"openrouter", "gemini">>
    /\ drv.exit = <<1>>

(***************************************************************************)
(* C36 - only well-formed content is saved                                 *)
(***************************************************************************)
\* exactly 5 posts, each with a numeric id, a topic, a caption, a slide1
\* with headline and subtitle, and slide2 and slide3 with two lines or more
WellFormed(content) ==
    /\ content.kind = "object" /\ content.postsKind = "array"
    /\ Len(content.posts) = 5
    /\ \A k \in 1..Len(content.posts) :
          /\ content.posts[k].idType = "number"
          /\ content.posts[k].topic = "string" /\ content.posts[k].caption = "string"
          /\ content.posts[k].slideContent = "object"
          /\ content.posts[k].headline /\ content.posts[k].subtitle
          /\ content.posts[k].lines2 >= 2 /\ content.posts[k].lines3 >= 2
IsJson(text) == ~text.fenced /\ text.body.kind \in {"null", "array", "object"}

\* C36: whatever generate-content saves is well formed, and the script
\* ends with code 0 only by saving; generateWithFallback is called at most
\* once with the repair prompt, after the one call with the content prompt;
\* and when the repair call returns a text that is not JSON, or JSON that is
\* still not well formed once normalised, the script ends with the matching
\* error and saves nothing.
C36_OnlyWellFormedSaved ==
    drv.script = "generate-content" =>
        /\ drv.saved # <<>> => (WellFormed(drv.saved[1]) /\ drv.exit = <<0>>)
        /\ drv.exit = <<0>> => drv.saved # <<>>
        /\ drv.call <= 2
        /\ \A j \in 1..Len(drv.log) :
              drv.log[j].prompt = IF drv.call = 2 THEN "REPAIR_PROMPT" ELSE "CONTENT_PROMPT"
        /\ (drv.call = 2 /\ CallSettled) =>
              IF drv.outputs[2].status = "thrown"
              THEN drv.saved = <<>> /\ drv.exit = <<1>>
              ELSE LET repairedText == drv.outputs[2].text[1]
                       content == normalizeMaybe(repairedText.body, TargetDate)
                   IN IF ~IsJson(repairedText)
                      THEN /\ drv.error = <<"Repair step returned non-JSON.">>
                           /\ drv.saved = <<>> /\ drv.exit = <<1>>
                      ELSE IF ~WellFormed(content)
                      THEN /\ drv.error # <<>>
                           /\ drv.error[1] = "Invalid JSON structure after repair. Top-level: "
                           /\ drv.saved = <<>> /\ drv.exit = <<1>>
                      ELSE drv.saved = <<content>>

\* the first answer had four posts, the repair call returned the five
\* posts as a bare array, which was wrapped and saved
C36_Witness ==
    /\ drv.script = "generate-content" /\ drv.call = 2 /\ CallSettled
    /\ drv.outputs[1].status = "returned"
    /\ Len(drv.outputs[1].text[1].body.posts) = 4
    /\ drv.outputs[2] = Gave(Text(FALSE, JsonArray(GoodPosts(5))))
    /\ drv.saved # <<>> /\ WellFormed(drv.saved[1]) /\ drv.saved[1].totalPosts = 5
    /\ drv.exit = <<0>>

====
